---- MODULE Spec2Model ----
(***************************************************************************)
(* Model of cantina-redis: RedisModel (lib/model.js), RedisCollection      *)
(* (lib/collection.js) and RedisView (lib/view.js) over one redis client.  *)
(*                                                                         *)
(* The client is a FIFO pipeline: a command is appended to `queue` when    *)
(* the code issues it, and the step Reply applies the head command to the  *)
(* store and runs the callback the code attached to it.                    *)
(*                                                                         *)
(* The schema is that of the view tests (test/view.js): a string property  *)
(* `group` (indexed, as `job` in test/model.js) and a number property      *)
(* `calories` (required, as `name` of Drink in test/view.js).  The view is *)
(* the one of test/view.js:154-163: sorted by calories, DESC, filtered to  *)
(* group === 'fruit', with or without cache.                               *)
(***************************************************************************)
EXTENDS Integers, Sequences, FiniteSets, TLC

\* ---------------------------------------------------------------- bounds
MaxInFlight == 2   \* calls are started only while fewer commands are queued
MaxErrors == 1     \* store errors injected in one behaviour
CacheSize == 3     \* the view's cacheSize option
MaxCalls == 3      \* save, destroy and repopulate calls in one behaviour
MaxWrites == 2     \* save and destroy calls before a find or getall
MaxItems == 2      \* arguments of destroyAll before its callback

\* ------------------------------------------------------------ data domain
Ids == {1, 2}
Groups == {"fruit", "candy"}
Calories == {1, 2}
Undef == "undefined"     \* a string property that is not set
NoNum == 0 - 1           \* a number property that is not set; also "no score"

\* A property bag.  form = "typed" is the hydrated form, form = "flat" the
\* dehydrated one (string values plus the _types entry) that HMSET stores.
TypedBags == [group : Groups \cup {Undef}, calories : Calories \cup {NoNum}, form : {"typed"}]
NoHash == [form |-> "none"]                 \* HGETALL reply for a missing key
EmptyBag == [group |-> Undef, calories |-> NoNum, form |-> "typed"]

VARIABLES
  opts,      \* the view's options
  hash,      \* redis: id -> stored hash (flat bag) or NoHash
  allIds,    \* redis: the namespace set  cantina:<name>
  index,     \* redis: the index sets     cantina:<name>:group:<value>
  zset,      \* redis: the view's sorted set, id -> score (NoNum: no member)
  mem,       \* the in-memory record of each id: its properties
  pc,        \* "idle" | "exec" (write or delete in flight) | "react"
  op,        \* the last operation started on the record
  trace,     \* events and callback invocations of that operation, in order
  old,       \* group value of the hash the last successful save overwrote
  cache,     \* the view's _cache: [primed, items]
  queue,     \* commands in flight on the shared client, oldest first
  repop,     \* the running or last repopulate of the view
  obs,       \* the running or last read call (list or get) and its result
  errs,      \* store errors injected so far
  calls,     \* save, destroy and repopulate calls so far
  thrown     \* an exception escaped a callback

vars == <<opts, hash, allIds, index, zset, mem, pc, op, trace, old, cache, queue, repop, obs, errs, calls, thrown>>

store == <<hash, allIds, index, zset>>

\* ------------------------------------------------------------------ view
\* view.js:87 the direction of a view constructed without the dir option
DefaultDir == "ASC"

\* view.js:89 the cacheSize option of a view whose cache holds fewer
\* elements than there are records
SmallCache == 1

\* the properties a view sorts by: calories, which every record has, or
\* rank, which no record has
SortProps == {"calories", "rank"}

\* view.js:84-90 the options of the views under test (test/view.js: sorted
\* by calories, filtered, dir 'DESC', cached or not), of the same views
\* constructed without dir (dirOpt is Undef), without sort (sort is FALSE)
\* or sorted by another property
ViewOptions ==
  {[cache |-> c, sort |-> s, by |-> p, dir |-> IF d = Undef THEN DefaultDir ELSE d,
    filter |-> f, cacheSize |-> n, dirOpt |-> d] :
     c \in BOOLEAN, s \in BOOLEAN, p \in SortProps, d \in {"DESC", Undef},
     n \in {SmallCache, CacheSize}, f \in BOOLEAN}

\* the view was given the filter function of test/view.js:160
Filtered == opts.filter

\* the cache has room for every record
RoomyCache == opts.cacheSize = CacheSize

\* the view is sorted by calories, as the views of test/view.js
SortedByCalories == opts.sort /\ opts.by = "calories"

\* test/view.js:160 the filter function of the views under test
Filter(bag) == bag.group = "fruit"

Passes(bag) == ~opts.filter \/ Filter(bag)

\* model.properties[this.sort], NoNum when the record has no such property
SortValue(bag) == IF opts.by = "calories" THEN bag.calories ELSE NoNum

\* view.js:136 the score afterSave gives to ZADD
Score(bag) == IF opts.sort THEN SortValue(bag) ELSE 0

\* A model object held by the view: a reference to the caller's record
\* (ref = TRUE, properties read through mem) or a record loaded from redis.
RefItem(i) == [id |-> i, ref |-> TRUE, bag |-> NoHash]
LoadedItem(i, b) == [id |-> i, ref |-> FALSE, bag |-> b]
ItemBag(it) == IF it.ref THEN mem[it.id] ELSE it.bag


\* ----------------------------------------------------------------- codec
\* model.js:213 _dehydrate: already dehydrated bags (those with _types) are
\* left alone, others get the string form
Dehydrate(bag) == IF bag.form = "flat" THEN bag ELSE [bag EXCEPT !.form = "flat"]

\* model.js:241 _hydrate: bags without _types are left alone
Hydrate(bag) == IF bag.form # "flat" THEN bag ELSE [bag EXCEPT !.form = "typed"]

\* model.js:166 set(attrs): a copy of attrs, {} when attrs is null
SetBag(attrs) == IF attrs.form = "none" THEN EmptyBag ELSE attrs

\* variant: validate() without the required check
Validate_NotRequired(bag) == bag.form = "typed"

\* model.js:124 validate(): calories is a required number; in the flat form it
\* is a string and fails the type check
Validate(bag) == bag.form = "typed" /\ bag.calories # NoNum

\* ------------------------------------------------------------ redis zset
Members == {i \in Ids : zset[i] # NoNum}

\* redis orders a sorted set by score, then by member
ZBefore(z, a, b) == z[a] < z[b] \/ (z[a] = z[b] /\ a < b)

RECURSIVE ZAscOf(_, _)
ZAscOf(z, S) ==
  IF S = {} THEN <<>>
  ELSE LET m == CHOOSE a \in S : \A b \in S \ {a} : ZBefore(z, a, b)
       IN <<m>> \o ZAscOf(z, S \ {m})

Reverse(s) == [k \in 1..Len(s) |-> s[Len(s) + 1 - k]]

\* view.js:386 _cmd: ZRANGE for ASC, ZREVRANGE otherwise
ZOrder(z, dir) ==
  LET asc == ZAscOf(z, {i \in Ids : z[i] # NoNum})
  IN IF dir = "ASC" THEN asc ELSE Reverse(asc)

Min(a, b) == IF a < b THEN a ELSE b

\* ZRANGE key start stop: both ends inclusive, zero based
ZRange(z, dir, start, stop) ==
  LET o == ZOrder(z, dir)
  IN SubSeq(o, start + 1, Min(stop + 1, Len(o)))

\* ----------------------------------------------------------------- cache
\* view.js:366 the comparator of sortCache; an undefined operand compares
\* neither smaller nor greater
Compare(a, b) ==
  LET x == IF opts.dir = "DESC" THEN SortValue(ItemBag(b)) ELSE SortValue(ItemBag(a))
      y == IF opts.dir = "DESC" THEN SortValue(ItemBag(a)) ELSE SortValue(ItemBag(b))
  IN IF x = NoNum \/ y = NoNum THEN 0
     ELSE IF x < y THEN 0 - 1
     ELSE IF x > y THEN 1
     ELSE 0

\* Array.prototype.sort on a short array: insertion sort
RECURSIVE InsertInto(_, _)
InsertInto(sorted, e) ==
  IF sorted = <<>> THEN <<e>>
  ELSE IF Compare(sorted[Len(sorted)], e) > 0
       THEN InsertInto(SubSeq(sorted, 1, Len(sorted) - 1), e) \o <<sorted[Len(sorted)]>>
       ELSE sorted \o <<e>>

RECURSIVE InsertionSort(_)
InsertionSort(s) ==
  IF s = <<>> THEN <<>>
  ELSE InsertInto(InsertionSort(SubSeq(s, 1, Len(s) - 1)), s[Len(s)])

\* view.js:363 sortCache
sortCache(items) == IF opts.cache /\ opts.sort THEN InsertionSort(items) ELSE items

\* view.js:319 addToCache: push, sort, drop the last one beyond cacheSize
addToCache(items, it) ==
  LET s == sortCache(Append(items, it))
  IN IF Len(s) > opts.cacheSize THEN SubSeq(s, 1, Len(s) - 1) ELSE s

RemoveAt(s, k) == SubSeq(s, 1, k - 1) \o SubSeq(s, k + 1, Len(s))

\* view.js:336 forEach with splice: index k runs over the initial length and
\* skips the indexes the shrinking array no longer has
RECURSIVE SpliceLoop(_, _, _, _)
SpliceLoop(s, id, k, n) ==
  IF k > n THEN s
  ELSE IF k <= Len(s) /\ s[k].id = id THEN SpliceLoop(RemoveAt(s, k), id, k + 1, n)
  ELSE SpliceLoop(s, id, k + 1, n)

\* view.js:333 removeFromCache
removeFromCache(items, it) == sortCache(SpliceLoop(items, it.id, 1, Len(items)))

\* view.js:348 updateCache
updateCache(items, it) ==
  sortCache([k \in 1..Len(items) |-> IF items[k].id = it.id THEN it ELSE items[k]])


\* ------------------------------------------------------------- ghost state
\* quiet: no record was busy when repopulate was called and no save or
\* destroy was called since; dirty: the ordered set then differed from Ideal
NoRepop == [pc |-> "idle", pending |-> 0, cbs |-> <<>>, quiet |-> FALSE, dirty |-> FALSE]

\* the score a record's persisted hash has in the view, NoNum for no element
Ideal(i) ==
  IF hash[i] # NoHash /\ Passes(Hydrate(hash[i])) THEN Score(Hydrate(hash[i])) ELSE NoNum
NoObs == [call |-> "none"]

Running(r) == r.pc \notin {"idle", "done"}

\* view.js:221 the range command list() sends: key, skip, skip + limit
ListCmd(limit, skip, dir, for) ==
  [cmd |-> "ZRANGE", dir |-> dir, start |-> skip, stop |-> skip + limit, for |-> for]

\* ------------------------------------------------------------------ Init
\* The state after `new RedisView(options)` over an empty store and one
\* `new Model()` per id; a cached view has issued the ZRANGE of primeCache.
Init ==
  /\ opts \in ViewOptions
  /\ hash = [i \in Ids |-> NoHash]
  /\ allIds = {}
  /\ index = [g \in Groups |-> {}]
  /\ zset = [i \in Ids |-> NoNum]
  /\ mem = [i \in Ids |-> EmptyBag]
  /\ pc = [i \in Ids |-> "idle"]
  /\ op = [i \in Ids |-> "none"]
  /\ trace = [i \in Ids |-> <<>>]
  /\ old = [i \in Ids |-> Undef]
  /\ cache = [primed |-> FALSE, items |-> <<>>]
  /\ queue = IF opts.cache THEN <<ListCmd(opts.cacheSize, 0, opts.dir, "prime")>> ELSE <<>>
  /\ repop = NoRepop
  /\ obs = NoObs
  /\ errs = 0
  /\ calls = 0
  /\ thrown = FALSE

\* nothing is in flight: every record operation and its reactions settled
Quiescent == queue = <<>> /\ (\A i \in Ids : pc[i] = "idle") /\ ~Running(repop)

\* A behaviour is a run of save, destroy and repopulate calls observed by at
\* most one read call (list or get), made when the earlier calls have
\* settled: no call follows the read.
CanCall == ~thrown /\ Len(queue) < MaxInFlight /\ obs.call = "none"

\* The properties a caller gives a record before a call: a new typed bag
\* (assignment or set(), model.js:166) or the ones the record has.
Inputs == {EmptyBag} \cup [group : Groups \cup {Undef}, calories : Calories, form : {"typed"}]

\* model.js:122-130 save(cb) of a record holding the properties b, up to the
\* MULTI ... exec() it issues
Save(i, b) ==
  /\ CanCall /\ calls < MaxCalls
  /\ pc[i] = "idle"
  /\ calls' = calls + 1
  /\ op' = [op EXCEPT ![i] = "save"]
  /\ repop' = [repop EXCEPT !.quiet = FALSE, !.dirty = FALSE]
  /\ UNCHANGED obs
  /\ IF ~Validate(b)
     THEN /\ trace' = [trace EXCEPT ![i] = <<"cb:invalid">>]
          /\ mem' = [mem EXCEPT ![i] = b]
          /\ UNCHANGED <<pc, queue>>
     ELSE /\ trace' = [trace EXCEPT ![i] = <<"save:before">>]
          /\ mem' = [mem EXCEPT ![i] = Dehydrate(b)]
          /\ pc' = [pc EXCEPT ![i] = "exec"]
          /\ queue' = Append(queue, [cmd |-> "MULTI", id |-> i, bag |-> Dehydrate(b)])
  /\ UNCHANGED <<opts, store, old, cache, errs, thrown>>

\* model.js:192-195 destroy(cb) up to the DEL it issues
Destroy(i) ==
  /\ CanCall /\ calls < MaxCalls
  /\ pc[i] = "idle"
  /\ calls' = calls + 1
  /\ op' = [op EXCEPT ![i] = "destroy"]
  /\ trace' = [trace EXCEPT ![i] = <<"destroy:before">>]
  /\ pc' = [pc EXCEPT ![i] = "exec"]
  /\ queue' = Append(queue, [cmd |-> "DEL", id |-> i])
  /\ repop' = [repop EXCEPT !.quiet = FALSE, !.dirty = FALSE]
  /\ UNCHANGED obs
  /\ UNCHANGED <<opts, store, mem, old, cache, errs, thrown>>

\* view.js:134-172 afterSave(model): the command the view issues
afterSaveCmd(it, bag, src) ==
  IF Passes(bag)
  THEN [cmd |-> "ZADD", item |-> it, score |-> Score(bag), src |-> src]
  ELSE [cmd |-> "ZREM", item |-> it, src |-> src]

Bit(b) == IF b THEN 1 ELSE 0

\* redis HMSET key field value ...: the fields given are written, the other
\* fields of an existing hash stay
Merge(h, bag) ==
  IF h = NoHash THEN bag
  ELSE [group |-> IF bag.group = Undef THEN h.group ELSE bag.group,
        calories |-> IF bag.calories = NoNum THEN h.calories ELSE bag.calories,
        form |-> bag.form]

\* variant: HMSET and HGETALL are sent without MULTI, and the HMSET of
\* another caller's save of the same id is applied between them
ReplyMulti_NoTransaction(hErr, gErr, xErr) ==
  /\ ~thrown /\ queue # <<>> /\ queue[1].cmd = "MULTI"
  /\ errs + Bit(hErr) + Bit(gErr) + Bit(xErr) <= MaxErrors
  /\ LET c == queue[1]
         i == c.id
         written == ~hErr /\ ~xErr
         hash1 == IF written THEN Merge(hash[i], c.bag) ELSE hash[i]
         t1 == IF hErr THEN <<"cb:err">> ELSE <<>>
         t2 == IF gErr /\ ~hErr THEN <<"cb:err">> ELSE <<>>
         ran == hErr \/ gErr
         seen == IF Len(queue) > 1 /\ queue[2].cmd = "MULTI2" /\ queue[2].id = i
                 THEN Merge(hash1, queue[2].bag) ELSE hash1
         m2 == IF ~gErr /\ ~xErr THEN SetBag(seen) ELSE mem[i]
         m3 == Hydrate(m2)
         was == IF zset[i] # NoNum /\ ~Running(repop) THEN <<"was:member">> ELSE <<>>
     IN /\ errs' = errs + Bit(hErr) + Bit(gErr) + Bit(xErr)
        /\ hash' = [hash EXCEPT ![i] = hash1]
        /\ old' = [old EXCEPT ![i] = IF written /\ hash[i].form # "none" THEN hash[i].group ELSE Undef]
        /\ IF xErr
           THEN /\ trace' = [trace EXCEPT ![i] = @ \o t1 \o t2 \o (IF ran THEN <<>> ELSE <<"cb:err">>)]
                /\ mem' = [mem EXCEPT ![i] = m2]
                /\ pc' = [pc EXCEPT ![i] = "idle"]
                /\ queue' = Tail(queue)
           ELSE /\ trace' = [trace EXCEPT ![i] = @ \o t1 \o t2 \o <<"save:after">> \o was \o <<"cb:ok">>]
                /\ mem' = [mem EXCEPT ![i] = m3]
                /\ pc' = [pc EXCEPT ![i] = "react"]
                /\ queue' = Tail(queue) \o <<[cmd |-> "SADD", id |-> i, group |-> m3.group],
                                            afterSaveCmd(RefItem(i), m3, "save")>>
  /\ UNCHANGED <<opts, allIds, index, zset, op, cache, repop, obs, thrown, calls>>

\* model.js:131-153 the callbacks of HMSET, HGETALL and exec, in this order,
\* with the save:after listeners of model.js:72-80 and view.js:126.
\* hErr, gErr: the step reported an error; xErr: exec reported an error.
\* "was:member" notes that the record was in the view when afterSave ran.
ReplyMulti(hErr, gErr, xErr) ==
  /\ ~thrown /\ queue # <<>> /\ queue[1].cmd = "MULTI"
  /\ errs + Bit(hErr) + Bit(gErr) + Bit(xErr) <= MaxErrors
  /\ LET c == queue[1]
         i == c.id
         written == ~hErr /\ ~xErr
         hash1 == IF written THEN Merge(hash[i], c.bag) ELSE hash[i]
         t1 == IF hErr THEN <<"cb:err">> ELSE <<>>
         t2 == IF gErr /\ ~hErr THEN <<"cb:err">> ELSE <<>>
         ran == hErr \/ gErr
         m2 == IF ~gErr /\ ~xErr THEN SetBag(hash1) ELSE mem[i]
         m3 == Hydrate(m2)
         was == IF zset[i] # NoNum /\ ~Running(repop) THEN <<"was:member">> ELSE <<>>
     IN /\ errs' = errs + Bit(hErr) + Bit(gErr) + Bit(xErr)
        /\ hash' = [hash EXCEPT ![i] = hash1]
        /\ old' = [old EXCEPT ![i] = IF written /\ hash[i].form # "none" THEN hash[i].group ELSE Undef]
        /\ IF xErr
           THEN /\ trace' = [trace EXCEPT ![i] = @ \o t1 \o t2 \o (IF ran THEN <<>> ELSE <<"cb:err">>)]
                /\ mem' = [mem EXCEPT ![i] = m2]
                /\ pc' = [pc EXCEPT ![i] = "idle"]
                /\ queue' = Tail(queue)
           ELSE /\ trace' = [trace EXCEPT ![i] = @ \o t1 \o t2 \o <<"save:after">> \o was \o <<"cb:ok">>]
                /\ mem' = [mem EXCEPT ![i] = m3]
                /\ pc' = [pc EXCEPT ![i] = "react"]
                /\ queue' = Tail(queue) \o <<[cmd |-> "SADD", id |-> i, group |-> m3.group],
                                            afterSaveCmd(RefItem(i), m3, "save")>>
  /\ UNCHANGED <<opts, allIds, index, zset, op, cache, repop, obs, thrown, calls>>

\* model.js:122-130 save(cb) called on another record object of the same
\* id, holding the valid properties b, while the record kept for the id may
\* have a save in flight
SaveOther(i, b) ==
  /\ CanCall /\ calls < MaxCalls
  /\ Validate(b)
  /\ calls' = calls + 1
  /\ queue' = Append(queue, [cmd |-> "MULTI2", id |-> i, bag |-> Dehydrate(b)])
  /\ trace' = [trace EXCEPT ![i] = Append(@, "other:before")]
  /\ repop' = [repop EXCEPT !.quiet = FALSE, !.dirty = FALSE]
  /\ UNCHANGED <<opts, store, mem, pc, op, old, cache, obs, errs, thrown>>

\* variant: the view's reaction reads the properties the caller gave the
\* record, not the ones read back from the hash
ReplyMultiOther_NoReadBack(xErr) ==
  /\ ~thrown /\ queue # <<>> /\ queue[1].cmd = "MULTI2"
  /\ errs + Bit(xErr) <= MaxErrors
  /\ errs' = errs + Bit(xErr)
  /\ LET c == queue[1]
         i == c.id
         hash1 == Merge(hash[i], c.bag)
         m3 == Hydrate(c.bag)
     IN IF xErr
        THEN /\ queue' = Tail(queue)
             /\ UNCHANGED <<hash, trace>>
        ELSE /\ hash' = [hash EXCEPT ![i] = hash1]
             /\ trace' = [trace EXCEPT ![i] = Append(@, "other:after")]
             /\ queue' = Tail(queue) \o <<[cmd |-> "SADD", id |-> i, group |-> m3.group],
                                         afterSaveCmd(LoadedItem(i, m3), m3, "other")>>
  /\ UNCHANGED <<opts, allIds, index, zset, mem, pc, op, old, cache, repop, obs, thrown, calls>>

\* model.js:131-153 the callbacks of the other caller's MULTI: exec reports
\* an error, or the hash is written and read back into that caller's
\* record, whose save:after listeners run (model.js:72-80, view.js:126)
ReplyMultiOther(xErr) ==
  /\ ~thrown /\ queue # <<>> /\ queue[1].cmd = "MULTI2"
  /\ errs + Bit(xErr) <= MaxErrors
  /\ errs' = errs + Bit(xErr)
  /\ LET c == queue[1]
         i == c.id
         hash1 == Merge(hash[i], c.bag)
         m3 == Hydrate(SetBag(hash1))
     IN IF xErr
        THEN /\ queue' = Tail(queue)
             /\ UNCHANGED <<hash, trace>>
        ELSE /\ hash' = [hash EXCEPT ![i] = hash1]
             /\ trace' = [trace EXCEPT ![i] = Append(@, "other:after")]
             /\ queue' = Tail(queue) \o <<[cmd |-> "SADD", id |-> i, group |-> m3.group],
                                         afterSaveCmd(LoadedItem(i, m3), m3, "other")>>
  /\ UNCHANGED <<opts, allIds, index, zset, mem, pc, op, old, cache, repop, obs, thrown, calls>>

\* variant: destroy:after is emitted whatever DEL answered
ReplyDel_IgnoreError(err) ==
  /\ ~thrown /\ queue # <<>> /\ queue[1].cmd = "DEL"
  /\ errs + Bit(err) <= MaxErrors
  /\ errs' = errs + Bit(err)
  /\ LET i == queue[1].id
     IN /\ hash' = [hash EXCEPT ![i] = IF err THEN @ ELSE NoHash]
        /\ trace' = [trace EXCEPT ![i] = @ \o (IF err THEN <<"cb:err">> ELSE <<"destroy:after", "cb:ok">>)]
        /\ pc' = [pc EXCEPT ![i] = "react"]
        /\ queue' = Tail(queue) \o <<[cmd |-> "SREM", id |-> i, group |-> mem[i].group],
                                    [cmd |-> "ZREMD", item |-> RefItem(i), src |-> "destroy"]>>
  /\ UNCHANGED <<opts, allIds, index, zset, mem, op, old, cache, repop, obs, thrown, calls>>

\* model.js:195-202 the callback of DEL, with the destroy:after listeners of
\* model.js:81-88 and view.js:127 (afterDestroy, view.js:177-180)
ReplyDel(err) ==
  /\ ~thrown /\ queue # <<>> /\ queue[1].cmd = "DEL"
  /\ errs + Bit(err) <= MaxErrors
  /\ errs' = errs + Bit(err)
  /\ LET i == queue[1].id
     IN IF err
        THEN /\ trace' = [trace EXCEPT ![i] = @ \o <<"cb:err">>]
             /\ pc' = [pc EXCEPT ![i] = "idle"]
             /\ queue' = Tail(queue)
             /\ UNCHANGED hash
        ELSE /\ hash' = [hash EXCEPT ![i] = NoHash]
             /\ trace' = [trace EXCEPT ![i] = @ \o <<"destroy:after", "cb:ok">>]
             /\ pc' = [pc EXCEPT ![i] = "react"]
             /\ queue' = Tail(queue) \o <<[cmd |-> "SREM", id |-> i, group |-> mem[i].group],
                                         [cmd |-> "ZREMD", item |-> RefItem(i), src |-> "destroy"]>>
  /\ UNCHANGED <<opts, allIds, index, zset, mem, op, old, cache, repop, obs, thrown, calls>>

\* variant: the save:after listener adds the id to the namespace set only
ReplySadd_NoIndex ==
  /\ ~thrown /\ queue # <<>> /\ queue[1].cmd = "SADD"
  /\ allIds' = allIds \cup {queue[1].id}
  /\ queue' = Tail(queue)
  /\ UNCHANGED <<opts, hash, index, zset, mem, pc, op, trace, old, cache, repop, obs, errs, thrown, calls>>

\* model.js:74-79 SADD on the namespace set and on the index set of a defined value
ReplySadd ==
  /\ ~thrown /\ queue # <<>> /\ queue[1].cmd = "SADD"
  /\ LET c == queue[1]
     IN /\ allIds' = allIds \cup {c.id}
        /\ index' = IF c.group # Undef THEN [index EXCEPT ![c.group] = @ \cup {c.id}] ELSE index
  /\ queue' = Tail(queue)
  /\ UNCHANGED <<opts, hash, zset, mem, pc, op, trace, old, cache, repop, obs, errs, thrown, calls>>

\* variant: the SREM of the destroy:after listener goes over a connection
\* of its own and is answered after the commands in flight on the shared one
ReplySrem_OtherConnection ==
  /\ ~thrown /\ queue # <<>> /\ queue[1].cmd = "SREM"
  /\ LET c == queue[1]
     IN IF Len(queue) > 1
        THEN /\ queue' = Append(Tail(queue), c)
             /\ UNCHANGED <<allIds, index>>
        ELSE /\ allIds' = allIds \ {c.id}
             /\ index' = IF c.group # Undef THEN [index EXCEPT ![c.group] = @ \ {c.id}] ELSE index
             /\ queue' = Tail(queue)
  /\ UNCHANGED <<opts, hash, zset, mem, pc, op, trace, old, cache, repop, obs, errs, thrown, calls>>

\* model.js:82-87 SREM on the namespace set and on the index set of a defined value
ReplySrem ==
  /\ ~thrown /\ queue # <<>> /\ queue[1].cmd = "SREM"
  /\ LET c == queue[1]
     IN /\ allIds' = allIds \ {c.id}
        /\ index' = IF c.group # Undef THEN [index EXCEPT ![c.group] = @ \ {c.id}] ELSE index
  /\ queue' = Tail(queue)
  /\ UNCHANGED <<opts, hash, zset, mem, pc, op, trace, old, cache, repop, obs, errs, thrown, calls>>


\* ------------------------------------------------------- view reactions
\* async.forEachLimit / async.parallel in repopulate (view.js:289-296): the
\* callback of a replayed afterSave; after the first error or the last
\* completion the final callback has run and later completions do nothing
RepopNext(r, err) ==
  IF r.pc # "replay" THEN r
  ELSE IF err THEN [r EXCEPT !.pc = "done", !.cbs = Append(@, "err")]
  ELSE IF r.pending = 1 THEN [r EXCEPT !.pc = "done", !.pending = 0, !.cbs = Append(@, "ok")]
  ELSE [r EXCEPT !.pending = @ - 1]

\* what a reaction's callback leaves behind: the record of a save or destroy
\* is settled, a replayed record reports to repopulate, the record object of
\* another caller is not followed
Settle(c, events, err) ==
  IF c.src = "repop"
  THEN /\ repop' = RepopNext(repop, err)
       /\ UNCHANGED <<pc, trace>>
  ELSE IF c.src = "other"
  THEN UNCHANGED <<pc, trace, repop>>
  ELSE /\ pc' = [pc EXCEPT ![c.item.id] = "idle"]
       /\ trace' = [trace EXCEPT ![c.item.id] = @ \o events]
       /\ UNCHANGED repop

\* _cache is null until primeCache has finished: push / forEach on it throws
CacheThrows == opts.cache /\ ~cache.primed

\* variant: the callback of ZADD treats every element as new
ReplyZadd_AlwaysNew(err) ==
  /\ ~thrown /\ queue # <<>> /\ queue[1].cmd = "ZADD"
  /\ queue[1].score = NoNum => err
  /\ errs + Bit(err /\ queue[1].score # NoNum) <= MaxErrors
  /\ errs' = errs + Bit(err /\ queue[1].score # NoNum)
  /\ queue' = Tail(queue)
  /\ LET c == queue[1]
         id == c.item.id
     IN IF err
        THEN /\ Settle(c, <<"view:error">>, TRUE)
             /\ UNCHANGED <<zset, cache, thrown>>
        ELSE /\ zset' = [zset EXCEPT ![id] = c.score]
             /\ IF CacheThrows
                THEN /\ thrown' = TRUE
                     /\ UNCHANGED <<cache, pc, trace, repop>>
                ELSE /\ cache' = IF ~opts.cache THEN cache
                                 ELSE [cache EXCEPT !.items = addToCache(@, c.item)]
                     /\ Settle(c, <<"model:added">>, FALSE)
                     /\ UNCHANGED thrown
  /\ UNCHANGED <<opts, hash, allIds, index, mem, op, old, obs, calls>>

\* view.js:141-155 the callback of ZADD; redis rejects a score that is not a number
ReplyZadd(err) ==
  /\ ~thrown /\ queue # <<>> /\ queue[1].cmd = "ZADD"
  /\ queue[1].score = NoNum => err
  /\ errs + Bit(err /\ queue[1].score # NoNum) <= MaxErrors
  /\ errs' = errs + Bit(err /\ queue[1].score # NoNum)
  /\ queue' = Tail(queue)
  /\ LET c == queue[1]
         id == c.item.id
         count == IF zset[id] = NoNum THEN 1 ELSE 0
     IN IF err
        THEN /\ Settle(c, <<"view:error">>, TRUE)
             /\ UNCHANGED <<zset, cache, thrown>>
        ELSE /\ zset' = [zset EXCEPT ![id] = c.score]
             /\ IF CacheThrows
                THEN /\ thrown' = TRUE
                     /\ UNCHANGED <<cache, pc, trace, repop>>
                ELSE /\ cache' = IF ~opts.cache THEN cache
                                 ELSE IF count > 0
                                 THEN [cache EXCEPT !.items = addToCache(@, c.item)]
                                 ELSE [cache EXCEPT !.items = updateCache(@, c.item)]
                     /\ Settle(c, IF count > 0 THEN <<"model:added">> ELSE <<"model:updated">>, FALSE)
                     /\ UNCHANGED thrown
  /\ UNCHANGED <<opts, hash, allIds, index, mem, op, old, obs, calls>>

\* variant: a failed ZREM of afterSave is reported and then handled as a removal
ReplyZrem_RemoveOnError(err) ==
  /\ ~thrown /\ queue # <<>> /\ queue[1].cmd = "ZREM"
  /\ errs + Bit(err) <= MaxErrors
  /\ errs' = errs + Bit(err)
  /\ queue' = Tail(queue)
  /\ LET c == queue[1]
         id == c.item.id
         count == IF zset[id] = NoNum THEN 0 ELSE 1
     IN IF count > 0 /\ CacheThrows
        THEN /\ thrown' = TRUE
             /\ zset' = IF err THEN zset ELSE [zset EXCEPT ![id] = NoNum]
             /\ UNCHANGED <<cache, pc, trace, repop>>
        ELSE /\ zset' = IF err THEN zset ELSE [zset EXCEPT ![id] = NoNum]
             /\ cache' = IF opts.cache /\ count > 0
                         THEN [cache EXCEPT !.items = removeFromCache(@, c.item)]
                         ELSE cache
             /\ Settle(c, (IF err THEN <<"view:error">> ELSE <<>>) \o
                          (IF count > 0 THEN <<"model:removed">> ELSE <<>>), err)
             /\ UNCHANGED thrown
  /\ UNCHANGED <<opts, hash, allIds, index, mem, op, old, obs, calls>>

\* view.js:160-170 the callback of ZREM issued by afterSave
ReplyZrem(err) ==
  /\ ~thrown /\ queue # <<>> /\ queue[1].cmd = "ZREM"
  /\ errs + Bit(err) <= MaxErrors
  /\ errs' = errs + Bit(err)
  /\ queue' = Tail(queue)
  /\ LET c == queue[1]
         id == c.item.id
         count == IF zset[id] = NoNum THEN 0 ELSE 1
     IN IF err
        THEN /\ Settle(c, <<"view:error">>, TRUE)
             /\ UNCHANGED <<zset, cache, thrown>>
        ELSE /\ zset' = [zset EXCEPT ![id] = NoNum]
             /\ IF count > 0 /\ CacheThrows
                THEN /\ thrown' = TRUE
                     /\ UNCHANGED <<cache, pc, trace, repop>>
                ELSE /\ cache' = IF opts.cache /\ count > 0
                                 THEN [cache EXCEPT !.items = removeFromCache(@, c.item)]
                                 ELSE cache
                     /\ Settle(c, IF count > 0 THEN <<"model:removed">> ELSE <<>>, FALSE)
                     /\ UNCHANGED thrown
  /\ UNCHANGED <<opts, hash, allIds, index, mem, op, old, obs, calls>>

\* view.js:180-187 the callback of ZREM issued by afterDestroy
ReplyZremDestroy(err) ==
  /\ ~thrown /\ queue # <<>> /\ queue[1].cmd = "ZREMD"
  /\ errs + Bit(err) <= MaxErrors
  /\ errs' = errs + Bit(err)
  /\ queue' = Tail(queue)
  /\ LET c == queue[1]
     IN IF err
        THEN /\ Settle(c, <<"view:error">>, TRUE)
             /\ UNCHANGED zset
        ELSE /\ zset' = [zset EXCEPT ![c.item.id] = NoNum]
             /\ Settle(c, <<"model:removed">>, FALSE)
  /\ UNCHANGED <<opts, hash, allIds, index, mem, op, old, cache, obs, thrown, calls>>


\* ------------------------------------------------------------ read calls
Limits == {1, 10}
Skips == {0, 1}
Dirs == {"ASC", "DESC"}

Snapshot(it) == LoadedItem(it.id, ItemBag(it))

\* view.js:216 should list() serve from the cache?
ServeFromCache(limit, skip, dir) ==
  opts.cache /\ cache.primed /\ dir = opts.dir /\ (skip = 0 \/ limit + skip <= Len(cache.items))

\* Array.prototype.slice(skip, skip + limit)
Slice(s, skip, limit) == SubSeq(s, skip + 1, Min(skip + limit, Len(s)))

\* view.js:193-225 list(limit, skip, dir, callback)
List(limit, skip, dir) ==
  /\ CanCall /\ Quiescent
  /\ LET o == [call |-> "list", limit |-> limit, skip |-> skip, dir |-> dir, id |-> 0,
               err |-> FALSE]
     IN IF ServeFromCache(limit, skip, dir)
        THEN /\ obs' = o @@ [pc |-> "done", from |-> "cache",
                             res |-> [k \in 1..Len(Slice(cache.items, skip, limit)) |->
                                         Snapshot(Slice(cache.items, skip, limit)[k])]]
             /\ UNCHANGED queue
        ELSE /\ obs' = o @@ [pc |-> "wait", from |-> "store", res |-> <<>>]
             /\ queue' = Append(queue, ListCmd(limit, skip, dir, "list"))
  /\ UNCHANGED <<opts, store, mem, pc, op, trace, old, cache, repop, errs, thrown, calls>>

\* collection.js:119-122 get(id, cb): a new model with that id is loaded
Get(id) ==
  /\ CanCall /\ Quiescent
  /\ obs' = [call |-> "get", limit |-> 0, skip |-> 0, dir |-> "", id |-> id,
             err |-> FALSE, pc |-> "wait", from |-> "store", res |-> <<>>]
  /\ queue' = Append(queue, [cmd |-> "HGETALL", ids |-> <<id>>, for |-> "get"])
  /\ UNCHANGED <<opts, store, mem, pc, op, trace, old, cache, repop, errs, thrown, calls>>

\* view.js:193-225 list(limit, skip, dir, callback) called while a
\* repopulate of the view is running: its range command is sent behind the
\* commands repopulate has sent so far and ahead of those its callbacks send
ListDuring(limit, skip, dir) ==
  /\ CanCall /\ Running(repop) /\ \A i \in Ids : pc[i] = "idle"
  /\ LET o == [call |-> "list", limit |-> limit, skip |-> skip, dir |-> dir, id |-> 0,
               err |-> FALSE]
     IN IF ServeFromCache(limit, skip, dir)
        THEN /\ obs' = o @@ [pc |-> "done", from |-> "cache",
                             res |-> [k \in 1..Len(Slice(cache.items, skip, limit)) |->
                                         Snapshot(Slice(cache.items, skip, limit)[k])]]
             /\ UNCHANGED queue
        ELSE /\ obs' = o @@ [pc |-> "wait", from |-> "store", res |-> <<>>]
             /\ queue' = Append(queue, ListCmd(limit, skip, dir, "list"))
  /\ UNCHANGED <<opts, store, mem, pc, op, trace, old, cache, repop, errs, thrown, calls>>

\* view.js:221-224 and view.js:306-313 the callback of the range command:
\* _hydrate (view.js:230-252) loads every element; with no element
\* async.parallel calls back at once
ReplyZrange(err) ==
  /\ ~thrown /\ queue # <<>> /\ queue[1].cmd = "ZRANGE"
  /\ errs + Bit(err) <= MaxErrors
  /\ errs' = errs + Bit(err)
  /\ LET c == queue[1]
         ids == ZRange(zset, c.dir, c.start, c.stop)
     IN IF c.for = "prime"
        THEN /\ thrown' = err
             /\ cache' = IF ~err /\ ids = <<>> THEN [primed |-> TRUE, items |-> <<>>] ELSE cache
             /\ queue' = IF ~err /\ ids # <<>>
                         THEN Tail(queue) \o <<[cmd |-> "HGETALL", ids |-> ids, for |-> "prime"]>>
                         ELSE Tail(queue)
             /\ UNCHANGED obs
        ELSE /\ obs' = IF err THEN [obs EXCEPT !.pc = "done", !.err = TRUE]
                       ELSE IF ids = <<>> THEN [obs EXCEPT !.pc = "done"]
                       ELSE obs
             /\ queue' = IF ~err /\ ids # <<>>
                         THEN Tail(queue) \o <<[cmd |-> "HGETALL", ids |-> ids, for |-> "list"]>>
                         ELSE Tail(queue)
             /\ UNCHANGED <<cache, thrown>>
  /\ UNCHANGED <<opts, store, mem, pc, op, trace, old, repop, calls>>


\* RedisModel load(cb): HGETALL of the record's key; a missing hash yields
\* (null, null), otherwise the hydrated properties
load(id) == LoadedItem(id, Hydrate(hash[id]))

IsNull(it) == it.bag.form = "none"

\* variant: get reports a missing record as an error
ReplyHgetall_MissingIsError(err) ==
  /\ ~thrown /\ queue # <<>> /\ queue[1].cmd = "HGETALL" /\ queue[1].for = "get"
  /\ errs + Bit(err) <= MaxErrors
  /\ errs' = errs + Bit(err)
  /\ obs' = IF err \/ IsNull(load(queue[1].ids[1])) THEN [obs EXCEPT !.pc = "done", !.err = TRUE]
            ELSE [obs EXCEPT !.pc = "done", !.res = <<load(queue[1].ids[1])>>]
  /\ queue' = Tail(queue)
  /\ UNCHANGED <<opts, store, mem, pc, op, trace, old, calls, cache, repop, thrown>>

\* the callback of the loads issued together by one call: view.js:240-250
\* (_hydrate for list and primeCache), collection.js:122-130 (get) and
\* collection.js:336-342 (getall for repopulate, then view.js:287-292)
ReplyHgetall(err) ==
  /\ ~thrown /\ queue # <<>> /\ queue[1].cmd = "HGETALL"
  /\ errs + Bit(err) <= MaxErrors
  /\ errs' = errs + Bit(err)
  /\ LET c == queue[1]
         models == [k \in 1..Len(c.ids) |-> load(c.ids[k])]
         nulls == \E k \in 1..Len(models) : IsNull(models[k])
     IN CASE c.for \in {"list", "get"} ->
               /\ obs' = IF err THEN [obs EXCEPT !.pc = "done", !.err = TRUE]
                         ELSE [obs EXCEPT !.pc = "done", !.res = models]
               /\ queue' = Tail(queue)
               /\ UNCHANGED <<cache, repop, thrown>>
          [] c.for = "prime" ->
               /\ thrown' = (err \/ (nulls /\ opts.sort /\ Len(models) > 1))
               /\ cache' = IF thrown' THEN cache
                           ELSE [primed |-> TRUE, items |-> sortCache(models)]
               /\ queue' = Tail(queue)
               /\ UNCHANGED <<obs, repop>>
          [] c.for = "repop" ->
               /\ thrown' = (~err /\ nulls)
               /\ repop' = IF err THEN [repop EXCEPT !.pc = "done", !.cbs = Append(@, "err")]
                           ELSE IF nulls THEN repop
                           ELSE [repop EXCEPT !.pc = "replay", !.pending = Len(models)]
               /\ queue' = IF err \/ nulls THEN Tail(queue)
                           ELSE Tail(queue) \o
                                [k \in 1..Len(models) |-> afterSaveCmd(models[k], models[k].bag, "repop")]
               /\ UNCHANGED <<obs, cache>>
  /\ UNCHANGED <<opts, store, mem, pc, op, trace, old, calls>>

\* ------------------------------------------------------------ repopulate
\* view.js:275-280 repopulate(callback) calls destroy (view.js:257-260): DEL of the view's key
Repopulate ==
  /\ CanCall /\ ~Running(repop) /\ calls < MaxCalls
  /\ calls' = calls + 1
  /\ repop' = [pc |-> "del", pending |-> 0, cbs |-> <<>>, quiet |-> \A i \in Ids : pc[i] = "idle",
               dirty |-> \E i \in Ids : zset[i] # Ideal(i)]
  /\ queue' = Append(queue, [cmd |-> "DELVIEW"])
  /\ UNCHANGED obs
  /\ UNCHANGED <<opts, store, mem, pc, op, trace, old, cache, errs, thrown>>

\* variant: repopulate leaves the ordered set in place
ReplyDelView_Keep(err) ==
  /\ ~thrown /\ queue # <<>> /\ queue[1].cmd = "DELVIEW"
  /\ errs + Bit(err) <= MaxErrors
  /\ errs' = errs + Bit(err)
  /\ repop' = IF err THEN [repop EXCEPT !.pc = "done", !.cbs = Append(@, "err")]
              ELSE [repop EXCEPT !.pc = "find"]
  /\ queue' = IF err THEN Tail(queue) ELSE Tail(queue) \o <<[cmd |-> "SORT"]>>
  /\ UNCHANGED <<opts, store, mem, pc, op, trace, old, cache, obs, thrown, calls>>

\* view.js:260-267 and 280-296: the callback of DEL; find({}) on every source
\* model sends SORT <namespace set> BY NOSORT (collection.js:223-260)
ReplyDelView(err) ==
  /\ ~thrown /\ queue # <<>> /\ queue[1].cmd = "DELVIEW"
  /\ errs + Bit(err) <= MaxErrors
  /\ errs' = errs + Bit(err)
  /\ IF err
     THEN /\ repop' = [repop EXCEPT !.pc = "done", !.cbs = Append(@, "err")]
          /\ queue' = Tail(queue)
          /\ UNCHANGED zset
     ELSE /\ zset' = [i \in Ids |-> NoNum]
          /\ repop' = [repop EXCEPT !.pc = "find"]
          /\ queue' = Tail(queue) \o <<[cmd |-> "SORT"]>>
  /\ UNCHANGED <<opts, hash, allIds, index, mem, pc, op, trace, old, cache, obs, thrown, calls>>

Perms(S) == {s \in [1..Cardinality(S) -> S] : \A a, b \in 1..Cardinality(S) : s[a] = s[b] => a = b}

\* collection.js:253-258 the callback of SORT: getall(ids) loads every id;
\* without ids async.parallel and async.forEachLimit call back at once.
\* NOSORT returns the members of the set in no particular order.
ReplySort(err, ids) ==
  /\ ~thrown /\ queue # <<>> /\ queue[1].cmd = "SORT"
  /\ ids \in Perms(allIds)
  /\ errs + Bit(err) <= MaxErrors
  /\ errs' = errs + Bit(err)
  /\ IF err
     THEN /\ repop' = [repop EXCEPT !.pc = "done", !.cbs = Append(@, "err")]
          /\ queue' = Tail(queue)
     ELSE IF ids = <<>>
     THEN /\ repop' = [repop EXCEPT !.pc = "done", !.cbs = Append(@, "ok")]
          /\ queue' = Tail(queue)
     ELSE /\ repop' = [repop EXCEPT !.pc = "load"]
          /\ queue' = Tail(queue) \o <<[cmd |-> "HGETALL", ids |-> ids, for |-> "repop"]>>
  /\ UNCHANGED <<opts, store, mem, pc, op, trace, old, cache, obs, thrown, calls>>

\* ------------------------------------------------------ collection reads
\* the queries and options find is called with: every record ("all"), the
\* records of one group, or a query with two fields ("multi")
Queries == {"all", "multi"} \cup Groups
FindLimits == {0, 1, 2}
FindSkips == {0, 1, 3}
FindOptions == [sort : BOOLEAN, desc : BOOLEAN, limit : FindLimits, skip : FindSkips]
NoOptions == [sort |-> FALSE, desc |-> FALSE, limit |-> 0, skip |-> 0]

\* collection.js:216-252 the arguments of SORT: the set's key, BY NOSORT or
\* BY <hash field>, LIMIT only with a limit, DESC only with a sort
FindCmd(query, o) ==
  [cmd |-> "FIND", key |-> query, by |-> o.sort,
   limit |-> o.limit, skip |-> IF o.limit # 0 THEN o.skip ELSE 0,
   desc |-> o.sort /\ o.desc]

\* redis SORT key BY ns:*->calories: the weight of an element is the number in
\* its hash, 0 without one
Weight(id) == IF hash[id] = NoHash \/ hash[id].calories = NoNum THEN 0 ELSE hash[id].calories

\* elements with equal weights are ordered by the element itself
SortBefore(a, b) == Weight(a) < Weight(b) \/ (Weight(a) = Weight(b) /\ a < b)

\* variant: the second number of LIMIT is the last position, as in a range
Window_StopIndex(seq, c) ==
  IF c.limit = 0 THEN seq ELSE SubSeq(seq, c.skip + 1, Min(c.limit, Len(seq)))

\* redis LIMIT offset count on a reply
Window(seq, c) ==
  IF c.limit = 0 THEN seq ELSE SubSeq(seq, c.skip + 1, Min(c.skip + c.limit, Len(seq)))

\* the replies redis can give to the SORT of find: NOSORT leaves the order of
\* the set's members open, a sort fixes it
SortReply(c) ==
  LET S == IF c.key = "all" THEN allIds ELSE index[c.key]
      asc == CHOOSE q \in Perms(S) : \A a, b \in 1..Cardinality(S) : a < b => SortBefore(q[a], q[b])
  IN IF ~c.by THEN {Window(q, c) : q \in Perms(S)}
     ELSE {Window(IF c.desc THEN Reverse(asc) ELSE asc, c)}

Pending == [id |-> 0, ref |-> FALSE, bag |-> [form |-> "pending"]]

\* collection.js:336-342 getall: one get per id, run by async.parallel, which
\* calls back at once without tasks
Fetches(ids) == [k \in 1..Len(ids) |-> [cmd |-> "FETCH", pos |-> k, id |-> ids[k]]]

ReadObs(call, query, o, ids) ==
  [call |-> call, query |-> query, opt |-> o, ids |-> ids, pc |-> "wait", err |-> FALSE,
   errAt |-> 0, cbs |-> 0, list |-> FALSE, res |-> [k \in 1..Len(ids) |-> Pending],
   left |-> 1..Len(ids), order |-> <<>>]

\* variant: a query with more than one field is answered with its first field
Find_FirstField(query, o) ==
  /\ CanCall /\ Quiescent
  /\ obs' = ReadObs("find", query, o, <<>>)
  /\ queue' = Append(queue, FindCmd(IF query = "multi" THEN "fruit" ELSE query, o))
  /\ UNCHANGED <<opts, store, mem, pc, op, trace, old, cache, repop, errs, thrown, calls>>

\* collection.js:208-260 find(query, options, cb): a query with more than one
\* field raises, otherwise SORT is sent
Find(query, o) ==
  /\ CanCall /\ Quiescent
  /\ IF query = "multi"
     THEN /\ thrown' = TRUE
          /\ obs' = [ReadObs("find", query, o, <<>>) EXCEPT !.pc = "raised"]
          /\ UNCHANGED queue
     ELSE /\ obs' = ReadObs("find", query, o, <<>>)
          /\ queue' = Append(queue, FindCmd(query, o))
          /\ UNCHANGED thrown
  /\ UNCHANGED <<opts, store, mem, pc, op, trace, old, cache, repop, errs, calls>>

\* the id lists getall is called with
IdLists == {<<>>} \cup {<<i>> : i \in Ids} \cup {<<i, j>> : i, j \in Ids}

\* collection.js:336-343 getall(ids, cb)
Getall(ids) ==
  /\ CanCall /\ Quiescent
  /\ obs' = IF ids = <<>> THEN [ReadObs("getall", "", NoOptions, ids) EXCEPT !.pc = "done", !.cbs = 1, !.list = TRUE]
            ELSE ReadObs("getall", "", NoOptions, ids)
  /\ queue' = queue \o Fetches(ids)
  /\ UNCHANGED <<opts, store, mem, pc, op, trace, old, cache, repop, errs, thrown, calls>>

\* collection.js:253-258 the callback of find's SORT
ReplyFind(err) ==
  /\ ~thrown /\ queue # <<>> /\ queue[1].cmd = "FIND"
  /\ errs + Bit(err) <= MaxErrors
  /\ errs' = errs + Bit(err)
  /\ \E ids \in SortReply(queue[1]) :
       IF err
       THEN /\ obs' = [obs EXCEPT !.pc = "done", !.err = TRUE, !.cbs = @ + 1]
            /\ queue' = Tail(queue)
       ELSE /\ obs' = IF ids = <<>>
                      THEN [obs EXCEPT !.pc = "done", !.cbs = @ + 1, !.list = TRUE]
                      ELSE [obs EXCEPT !.ids = ids, !.res = [k \in 1..Len(ids) |-> Pending],
                                       !.left = 1..Len(ids)]
            /\ queue' = Tail(queue) \o Fetches(ids)
  /\ UNCHANGED <<opts, store, mem, pc, op, trace, old, cache, repop, thrown, calls>>

\* variant: async.parallel collects the results in the order of completion
ReplyFetch_Arrival(k, err, withList) ==
  /\ ~thrown /\ k \in 1..Len(queue) /\ queue[k].cmd = "FETCH"
  /\ errs + Bit(err) <= MaxErrors
  /\ errs' = errs + Bit(err)
  /\ queue' = RemoveAt(queue, k)
  /\ LET c == queue[k]
         at == Len(obs.order) + 1
         left == obs.left \ {c.pos}
     IN obs' = IF obs.pc = "done" THEN obs
               ELSE IF err
               THEN [obs EXCEPT !.pc = "done", !.err = TRUE, !.errAt = c.pos, !.cbs = @ + 1,
                                !.list = withList]
               ELSE [obs EXCEPT !.res[at] = load(c.id), !.left = left, !.order = Append(@, c.pos),
                                !.pc = IF left = {} THEN "done" ELSE @,
                                !.cbs = IF left = {} THEN @ + 1 ELSE @,
                                !.list = (left = {})]
  /\ UNCHANGED <<opts, store, mem, pc, op, trace, old, cache, repop, thrown, calls>>

\* collection.js:122-130 and 339-341 the callback of one get of getall, in
\* any order of completion: async.parallel stores the model at the task's
\* position, calls back with the first error and drops what completes later.
\* withList: the results gathered so far are handed over with the error
\* (the choice of the async library, which getall does not filter).
ReplyFetch(k, err, withList) ==
  /\ ~thrown /\ k \in 1..Len(queue) /\ queue[k].cmd = "FETCH"
  /\ errs + Bit(err) <= MaxErrors
  /\ errs' = errs + Bit(err)
  /\ queue' = RemoveAt(queue, k)
  /\ LET c == queue[k]
         left == obs.left \ {c.pos}
     IN obs' = IF obs.pc = "done" THEN obs
               ELSE IF err
               THEN [obs EXCEPT !.pc = "done", !.err = TRUE, !.errAt = c.pos, !.cbs = @ + 1,
                                !.list = withList]
               ELSE [obs EXCEPT !.res[c.pos] = load(c.id), !.left = left, !.order = Append(@, c.pos),
                                !.pc = IF left = {} THEN "done" ELSE @,
                                !.cbs = IF left = {} THEN @ + 1 ELSE @,
                                !.list = (left = {})]
  /\ UNCHANGED <<opts, store, mem, pc, op, trace, old, cache, repop, thrown, calls>>

\* ---------------------------------------------------------------- update
\* the attributes update is called with: a field that is not named is Undef
\* (group) or NoNum (calories)
Attrs == [group : Groups \cup {Undef}, calories : Calories \cup {NoNum}]

\* collection.js:163-165 model.properties[k] = attrs[k] for every key of attrs
Assign(bag, attrs) ==
  [bag EXCEPT !.group = IF attrs.group = Undef THEN @ ELSE attrs.group,
              !.calories = IF attrs.calories = NoNum THEN @ ELSE attrs.calories]

\* collection.js:157-159 update(id, attrs, cb) starts with get(id): a new
\* model of that id is loaded; it takes the place of the record kept for the id
Update(i, attrs) ==
  /\ CanCall /\ calls < MaxCalls
  /\ pc[i] = "idle"
  /\ calls' = calls + 1
  /\ op' = [op EXCEPT ![i] = "update"]
  /\ trace' = [trace EXCEPT ![i] = <<>>]
  /\ pc' = [pc EXCEPT ![i] = "load"]
  /\ queue' = Append(queue, [cmd |-> "LOAD", id |-> i, attrs |-> attrs])
  /\ repop' = [repop EXCEPT !.quiet = FALSE, !.dirty = FALSE]
  /\ UNCHANGED <<opts, store, mem, old, cache, obs, errs, thrown>>

\* variant: the loaded properties are replaced by attrs
ReplyLoad_Replace(err) ==
  /\ ~thrown /\ queue # <<>> /\ queue[1].cmd = "LOAD"
  /\ errs + Bit(err) <= MaxErrors
  /\ errs' = errs + Bit(err)
  /\ LET c == queue[1]
         i == c.id
         m == Assign(EmptyBag, c.attrs)
     IN IF err
        THEN /\ trace' = [trace EXCEPT ![i] = @ \o <<"cb:err">>]
             /\ pc' = [pc EXCEPT ![i] = "idle"]
             /\ queue' = Tail(queue)
             /\ UNCHANGED <<mem, thrown>>
        ELSE IF IsNull(load(i))
        THEN /\ thrown' = TRUE
             /\ queue' = Tail(queue)
             /\ UNCHANGED <<mem, pc, trace>>
        ELSE IF ~Validate(m)
        THEN /\ trace' = [trace EXCEPT ![i] = @ \o <<"cb:invalid">>]
             /\ mem' = [mem EXCEPT ![i] = m]
             /\ pc' = [pc EXCEPT ![i] = "idle"]
             /\ queue' = Tail(queue)
             /\ UNCHANGED thrown
        ELSE /\ trace' = [trace EXCEPT ![i] = @ \o <<"save:before">>]
             /\ mem' = [mem EXCEPT ![i] = Dehydrate(m)]
             /\ pc' = [pc EXCEPT ![i] = "exec"]
             /\ queue' = Tail(queue) \o
                         <<[cmd |-> "MULTI", id |-> i, bag |-> Dehydrate(m), attrs |-> c.attrs]>>
             /\ UNCHANGED thrown
  /\ UNCHANGED <<opts, store, op, old, cache, repop, obs, calls>>

\* collection.js:159-167 the callback of update's get: an error is passed on;
\* otherwise the named properties are assigned to the loaded model (a null
\* model raises) and the model is saved (model.js:122-130)
ReplyLoad(err) ==
  /\ ~thrown /\ queue # <<>> /\ queue[1].cmd = "LOAD"
  /\ errs + Bit(err) <= MaxErrors
  /\ errs' = errs + Bit(err)
  /\ LET c == queue[1]
         i == c.id
         m == Assign(load(i).bag, c.attrs)
     IN IF err
        THEN /\ trace' = [trace EXCEPT ![i] = @ \o <<"cb:err">>]
             /\ pc' = [pc EXCEPT ![i] = "idle"]
             /\ queue' = Tail(queue)
             /\ UNCHANGED <<mem, thrown>>
        ELSE IF IsNull(load(i))
        THEN /\ thrown' = TRUE
             /\ queue' = Tail(queue)
             /\ UNCHANGED <<mem, pc, trace>>
        ELSE IF ~Validate(m)
        THEN /\ trace' = [trace EXCEPT ![i] = @ \o <<"cb:invalid">>]
             /\ mem' = [mem EXCEPT ![i] = m]
             /\ pc' = [pc EXCEPT ![i] = "idle"]
             /\ queue' = Tail(queue)
             /\ UNCHANGED thrown
        ELSE /\ trace' = [trace EXCEPT ![i] = @ \o <<"save:before">>]
             /\ mem' = [mem EXCEPT ![i] = Dehydrate(m)]
             /\ pc' = [pc EXCEPT ![i] = "exec"]
             /\ queue' = Tail(queue) \o
                         <<[cmd |-> "MULTI", id |-> i, bag |-> Dehydrate(m), attrs |-> c.attrs]>>
             /\ UNCHANGED thrown
  /\ UNCHANGED <<opts, store, op, old, cache, repop, obs, calls>>

\* ------------------------------------------------------------ destroyAll
\* the things destroyAll is given: two records and a view, which have a
\* destroy method (model.js:192, view.js:257), and an object that has none
Entities == {"a", "b", "view", "plain"}
HasDestroy(e) == e # "plain"

\* an argument: one thing, or an array of up to two different things
Items ==
  {[array |-> FALSE, things |-> <<e>>] : e \in Entities} \cup
  {[array |-> TRUE, things |-> t] : t \in {<<>>} \cup {<<e>> : e \in Entities} \cup
                                          {<<e, f>> : e, f \in Entities}}

RECURSIVE ThingsIn(_)
ThingsIn(args) == IF args = <<>> THEN <<>> ELSE Head(args).things \o ThingsIn(Tail(args))

\* the argument lists before the callback: no thing is given twice
ArgLists ==
  {args \in UNION {[1..n -> Items] : n \in 0..MaxItems} :
     \A k, l \in 1..Len(ThingsIn(args)) : ThingsIn(args)[k] = ThingsIn(args)[l] => k = l}

\* variant: destroy is called on a thing whether it has the method or not
ItemTasks_NoCheck(it) ==
  IF Len(it.things) > 0 THEN it.things ELSE <<>>

\* prefix-key.js:49-63 the tasks of one argument: an argument with a length
\* is walked with forEach, any other is taken as one thing; only things
\* with a destroy method get a task
ItemTasks(it) ==
  IF it.array /\ Len(it.things) > 0 THEN SelectSeq(it.things, HasDestroy)
  ELSE IF ~it.array /\ HasDestroy(it.things[1]) THEN it.things
  ELSE <<>>

\* prefix-key.js:47-65 the tasks of every argument but the last
RECURSIVE Tasks(_)
Tasks(args) == IF args = <<>> THEN <<>> ELSE ItemTasks(Head(args)) \o Tasks(Tail(args))

Range(seq) == {seq[k] : k \in 1..Len(seq)}

\* prefix-key.js:43-67 destroyAll(args..., done): async.parallel starts
\* every task, and calls back at once when there is none.
\* count: calls of destroy per thing; inflight: destroys that have not
\* settled; failed: the destroys that reported an error, in this order;
\* cbs: the calls of done, "ok" or the thing whose error is passed
DestroyAll(args) ==
  /\ ~thrown /\ obs.call = "none" /\ queue = <<>>
  /\ obs' = [call |-> "destroyAll", args |-> args,
             count |-> [e \in Entities |-> Cardinality({k \in 1..Len(Tasks(args)) : Tasks(args)[k] = e})],
             inflight |-> Range(Tasks(args)),
             failed |-> <<>>,
             cbs |-> IF Tasks(args) = <<>> THEN <<"ok">> ELSE <<>>]
  /\ UNCHANGED <<opts, store, mem, pc, op, trace, old, cache, queue, repop, errs, calls, thrown>>

\* prefix-key.js:53, 61 and 67 the callback of one destroy, given by
\* async.parallel: the first error is passed to done at once, the last
\* completion calls done without error, and nothing is called after that
DestroySettles(e, err) ==
  /\ ~thrown /\ obs.call = "destroyAll" /\ e \in obs.inflight
  /\ errs + Bit(err) <= MaxErrors
  /\ errs' = errs + Bit(err)
  /\ LET left == obs.inflight \ {e}
         failed == IF err THEN Append(obs.failed, e) ELSE obs.failed
     IN obs' = IF obs.cbs # <<>>
               THEN [obs EXCEPT !.inflight = left, !.failed = failed]
               ELSE IF err
               THEN [obs EXCEPT !.inflight = left, !.failed = failed, !.cbs = Append(@, e)]
               ELSE [obs EXCEPT !.inflight = left,
                                !.cbs = IF left = {} THEN Append(@, "ok") ELSE @]
  /\ UNCHANGED <<opts, store, mem, pc, op, trace, old, cache, queue, repop, calls, thrown>>

\* -------------------------------------------------------- specifications
\* records and their index sets, observed by get; the view is not cached
NextRecord ==
  \/ \E i \in Ids : \E b \in Inputs \cup {mem[i]} : Save(i, b)
  \/ \E i \in Ids : Destroy(i)
  \/ \E i \in Ids : Get(i)
  \/ \E h, g, x \in BOOLEAN : ReplyMulti(h, g, x)
  \/ \E e \in BOOLEAN : ReplyDel(e)
  \/ ReplySadd
  \/ ReplySrem
  \/ \E e \in BOOLEAN : ReplyZadd(e)
  \/ \E e \in BOOLEAN : ReplyZrem(e)
  \/ \E e \in BOOLEAN : ReplyZremDestroy(e)
  \/ \E e \in BOOLEAN : ReplyHgetall(e)

InitRecord == Init /\ ~opts.cache /\ opts.dirOpt = "DESC" /\ SortedByCalories /\ RoomyCache /\ Filtered

SpecRecord == InitRecord /\ [][NextRecord]_vars

\* the view, cached or not, observed by list; the MULTI of a save succeeds
\* here, its errors are those of SpecRecord, and every saved record has a group
ViewInputs == {EmptyBag} \cup [group : Groups, calories : Calories, form : {"typed"}]

NextView ==
  \/ \E i \in Ids : \E b \in ViewInputs : Save(i, b)
  \/ \E i \in Ids : Destroy(i)
  \/ \E l \in Limits, s \in Skips, d \in Dirs : List(l, s, d)
  \/ Repopulate
  \/ ReplyMulti(FALSE, FALSE, FALSE)
  \/ \E e \in BOOLEAN : ReplyDel(e)
  \/ ReplySadd
  \/ ReplySrem
  \/ \E e \in BOOLEAN : ReplyZadd(e)
  \/ \E e \in BOOLEAN : ReplyZrem(e)
  \/ \E e \in BOOLEAN : ReplyZremDestroy(e)
  \/ \E e \in BOOLEAN : ReplyZrange(e)
  \/ \E e \in BOOLEAN : ReplyHgetall(e)
  \/ \E e \in BOOLEAN : ReplyDelView(e)
  \/ \E e \in BOOLEAN, ids \in Perms(allIds) : ReplySort(e, ids)

InitView == Init /\ opts.dirOpt = "DESC" /\ SortedByCalories /\ RoomyCache /\ Filtered

SpecView == InitView /\ [][NextView]_vars

\* a view constructed without dir, cached or not, listed by list() without
\* arguments (limit 10, skip 0, the view's direction) after MaxWrites saves
NextDefault ==
  \/ \E i \in Ids : \E b \in ViewInputs : calls < MaxWrites /\ Save(i, b)
  \/ List(10, 0, opts.dir)
  \/ ReplyMulti(FALSE, FALSE, FALSE)
  \/ ReplySadd
  \/ \E e \in BOOLEAN : ReplyZadd(e)
  \/ \E e \in BOOLEAN : ReplyZrem(e)
  \/ \E e \in BOOLEAN : ReplyZrange(e)
  \/ \E e \in BOOLEAN : ReplyHgetall(e)

InitDefault == Init /\ opts.dirOpt = Undef /\ SortedByCalories /\ RoomyCache /\ Filtered

SpecDefault == InitDefault /\ [][NextDefault]_vars

\* the collection's reads: find and getall observe the records once at most
\* MaxWrites saves and destroys have settled; a query by group takes no options
FindInputs ==
  {<<"all", o>> : o \in FindOptions} \cup {<<q, NoOptions>> : q \in Queries \ {"all"}}

NextFind ==
  \/ \E i \in Ids : \E b \in ViewInputs : calls < MaxWrites /\ Save(i, b)
  \/ \E i \in Ids : calls < MaxWrites /\ Destroy(i)
  \/ \E f \in FindInputs : Find(f[1], f[2])
  \/ \E ids \in IdLists : Getall(ids)
  \/ ReplyMulti(FALSE, FALSE, FALSE)
  \/ \E e \in BOOLEAN : ReplyDel(e)
  \/ ReplySadd
  \/ ReplySrem
  \/ \E e \in BOOLEAN : ReplyZadd(e)
  \/ \E e \in BOOLEAN : ReplyZrem(e)
  \/ \E e \in BOOLEAN : ReplyZremDestroy(e)
  \/ \E e \in BOOLEAN : ReplyFind(e)
  \/ \E k \in 1..Len(queue), e, w \in BOOLEAN : ReplyFetch(k, e, w)

SpecFind == InitRecord /\ [][NextFind]_vars

\* update next to save and destroy, MaxWrites calls in all; a record is
\* saved with every property or with calories only
UpdateInputs == [group : Groups \cup {Undef}, calories : Calories, form : {"typed"}]

NextUpdate ==
  \/ \E i \in Ids : \E b \in UpdateInputs : calls < MaxWrites /\ Save(i, b)
  \/ \E i \in Ids : calls < MaxWrites /\ Destroy(i)
  \/ \E i \in Ids : \E a \in Attrs : calls < MaxWrites /\ Update(i, a)
  \/ \E h, g, x \in BOOLEAN : ReplyMulti(h, g, x)
  \/ \E e \in BOOLEAN : ReplyDel(e)
  \/ ReplySadd
  \/ ReplySrem
  \/ \E e \in BOOLEAN : ReplyZadd(e)
  \/ \E e \in BOOLEAN : ReplyZrem(e)
  \/ \E e \in BOOLEAN : ReplyZremDestroy(e)
  \/ \E e \in BOOLEAN : ReplyLoad(e)

SpecUpdate == InitRecord /\ [][NextUpdate]_vars

\* two callers save the same record id, MaxWrites times in all: the record
\* kept for the id and another record object of that id
NextSame ==
  \/ \E i \in Ids : \E b \in UpdateInputs : calls < MaxWrites /\ Save(i, b)
  \/ \E i \in Ids : \E b \in UpdateInputs : calls < MaxWrites /\ SaveOther(i, b)
  \/ \E h, g, x \in BOOLEAN : ReplyMulti(h, g, x)
  \/ \E e \in BOOLEAN : ReplyMultiOther(e)
  \/ ReplySadd
  \/ \E e \in BOOLEAN : ReplyZadd(e)
  \/ \E e \in BOOLEAN : ReplyZrem(e)

SpecSame == InitRecord /\ [][NextSame]_vars

\* destroyAll and the destroys it starts, which settle in any order
NextDestroyAll ==
  \/ \E args \in ArgLists : DestroyAll(args)
  \/ \E e \in Entities, err \in BOOLEAN : DestroySettles(e, err)

SpecDestroyAll == InitRecord /\ [][NextDestroyAll]_vars

\* views without a sort property or sorted by a property no record has,
\* not cached, after MaxWrites saves
NextScore ==
  \/ \E i \in Ids : \E b \in ViewInputs : calls < MaxWrites /\ Save(i, b)
  \/ ReplyMulti(FALSE, FALSE, FALSE)
  \/ ReplySadd
  \/ \E e \in BOOLEAN : ReplyZadd(e)
  \/ \E e \in BOOLEAN : ReplyZrem(e)

InitScore == Init /\ ~opts.cache /\ opts.dirOpt = "DESC" /\ ~SortedByCalories /\ RoomyCache /\ Filtered

SpecScore == InitScore /\ [][NextScore]_vars

\* ------------------------------------------------- save:before listeners
\* The codec by property, for a record with the properties name and job and
\* a caller's save:before listener (test/model.js:101-115).  A value is its
\* kind and its text; Absent is a property the object does not have.
HookFields == {"name", "job"}

Kinds == {"string", "number", "boolean", "object"}

Absent == [kind |-> "undefined", text |-> ""]

Str(t) == [kind |-> "string", text |-> t]

\* the values a listener sets
HookValues ==
  {Str("dog"), Str("5"), [kind |-> "number", text |-> "5"], [kind |-> "number", text |-> "7"],
   [kind |-> "boolean", text |-> "true"], [kind |-> "boolean", text |-> "false"],
   [kind |-> "object", text |-> "{a:1}"]}

\* the properties of the records the listener is attached to
HookProps ==
  {[vals |-> [f \in HookFields |-> IF f = "name" THEN n ELSE j],
    types |-> [f \in HookFields |-> "none"], hasTypes |-> FALSE] :
     n \in {Str("buster"), Str("egon")}, j \in {Absent, Str("cat")}}

\* model.js:213-232 _dehydrate: properties with _types are left alone;
\* otherwise _types gets the kind of every property and objects become
\* their JSON text
dehydrateProps(p) ==
  IF p.hasTypes THEN p
  ELSE [vals |-> [f \in HookFields |->
                    IF p.vals[f].kind = "object" THEN Str(p.vals[f].text) ELSE p.vals[f]],
        types |-> [f \in HookFields |-> IF p.vals[f] = Absent THEN "none" ELSE p.vals[f].kind],
        hasTypes |-> TRUE]

\* the string the redis client sends for an argument: String(value)
ToRedis(v) == IF v.kind = "object" THEN "[object Object]" ELSE v.text

\* HMSET key properties on a key without hash: every property as a string
HashOf(p) ==
  [p EXCEPT !.vals = [f \in HookFields |->
                        IF p.vals[f] = Absent THEN Absent ELSE Str(ToRedis(p.vals[f]))]]

\* model.js:241-255 _hydrate: properties without _types are left alone;
\* otherwise every property named in _types gets its kind back and the
\* others stay the strings redis returned
hydrateProps(p) ==
  IF ~p.hasTypes THEN p
  ELSE [vals |-> [f \in HookFields |->
                    IF p.types[f] = "none" THEN p.vals[f]
                    ELSE [kind |-> p.types[f], text |-> p.vals[f].text]],
        types |-> [f \in HookFields |-> "none"],
        hasTypes |-> FALSE]

\* model.js:122-131 save() of a new record with the properties p and a
\* save:before listener that sets job to v: emit runs the record's own
\* listener (_dehydrate, registered in the constructor, model.js:69-71)
\* first and the caller's after it, then MULTI is issued
HookSave(p, v) ==
  /\ CanCall
  /\ obs' = [call |-> "hook", pc |-> "exec", set |-> v,
             mem |-> [dehydrateProps(p) EXCEPT !.vals["job"] = v],
             hash |-> Absent, got |-> Absent]
  /\ UNCHANGED <<opts, store, mem, pc, op, trace, old, cache, queue, repop, errs, calls, thrown>>

\* model.js:131-153 the MULTI succeeds: the hash is written, read back into
\* the record (set) and hydrated by the save:after listener (model.js:72-73)
ReplyHookMulti ==
  /\ obs.call = "hook" /\ obs.pc = "exec"
  /\ obs' = [obs EXCEPT !.pc = "saved", !.hash = HashOf(obs.mem),
                        !.mem = hydrateProps(HashOf(obs.mem))]
  /\ UNCHANGED <<opts, store, mem, pc, op, trace, old, cache, queue, repop, errs, calls, thrown>>

\* collection.js:119-121 get(id, cb) in the callback of the save
HookGet ==
  /\ obs.call = "hook" /\ obs.pc = "saved"
  /\ obs' = [obs EXCEPT !.pc = "load"]
  /\ UNCHANGED <<opts, store, mem, pc, op, trace, old, cache, queue, repop, errs, calls, thrown>>

\* load's HGETALL is answered: the callback of get receives a record with
\* the hydrated properties of the hash (collection.js:122-130)
ReplyHookGet ==
  /\ obs.call = "hook" /\ obs.pc = "load"
  /\ obs' = [obs EXCEPT !.pc = "done", !.got = hydrateProps(obs.hash)]
  /\ UNCHANGED <<opts, store, mem, pc, op, trace, old, cache, queue, repop, errs, calls, thrown>>

NextHook ==
  \/ \E p \in HookProps, v \in HookValues : HookSave(p, v)
  \/ ReplyHookMulti
  \/ HookGet
  \/ ReplyHookGet

SpecHook == InitRecord /\ [][NextHook]_vars

\* the view, cached or not, that only sees saves: no destroy, no
\* repopulate, no store error
NextSaves ==
  \/ \E i \in Ids : \E b \in ViewInputs : Save(i, b)
  \/ \E l \in Limits, s \in Skips, d \in Dirs : List(l, s, d)
  \/ ReplyMulti(FALSE, FALSE, FALSE)
  \/ ReplySadd
  \/ ReplyZadd(FALSE)
  \/ ReplyZrem(FALSE)
  \/ ReplyZrange(FALSE)
  \/ ReplyHgetall(FALSE)

SpecSaves == InitView /\ [][NextSaves]_vars

\* the view, cached or not, whose reactions to saves may fail: no destroy,
\* no repopulate
NextReact ==
  \/ \E i \in Ids : \E b \in ViewInputs : Save(i, b)
  \/ \E l \in Limits, s \in Skips, d \in Dirs : List(l, s, d)
  \/ ReplyMulti(FALSE, FALSE, FALSE)
  \/ ReplySadd
  \/ \E e \in BOOLEAN : ReplyZadd(e)
  \/ \E e \in BOOLEAN : ReplyZrem(e)
  \/ ReplyZrange(FALSE)
  \/ ReplyHgetall(FALSE)

SpecReact == InitView /\ [][NextReact]_vars

\* the view, cached or not, repopulated after at most MaxWrites saves and
\* listed before or while the repopulate runs; the store reports no error
NextRepop ==
  \/ \E i \in Ids : \E b \in ViewInputs : calls < MaxWrites /\ Save(i, b)
  \/ Repopulate
  \/ \E l \in Limits, s \in Skips, d \in Dirs : List(l, s, d)
  \/ \E l \in Limits, s \in Skips, d \in Dirs : ListDuring(l, s, d)
  \/ ReplyMulti(FALSE, FALSE, FALSE)
  \/ ReplySadd
  \/ ReplyZadd(FALSE)
  \/ ReplyZrem(FALSE)
  \/ ReplyZrange(FALSE)
  \/ ReplyHgetall(FALSE)
  \/ ReplyDelView(FALSE)
  \/ \E ids \in Perms(allIds) : ReplySort(FALSE, ids)

SpecRepop == InitView /\ [][NextRepop]_vars

\* a cached view whose cache holds one element, with saves and lists only
InitCache == Init /\ opts.cache /\ opts.cacheSize = SmallCache /\ opts.dirOpt = "DESC" /\ SortedByCalories /\ Filtered

SpecCache == InitCache /\ [][NextSaves]_vars

\* The state after `new RedisView(options)` of a cached view over a store
\* that already holds record 2, a member of the view's ordered set, while a
\* save of record 1, called just before the construction, is in flight on
\* the shared client: the MULTI of the save is ahead of the ZRANGE of
\* primeCache (view.js:107-111), and the view's listener is attached
\* (view.js:105, 123-129) when the save's exec is answered.
InitPrime ==
  /\ opts \in ViewOptions /\ opts.cache /\ RoomyCache /\ opts.dirOpt = "DESC" /\ SortedByCalories /\ Filtered
  /\ \E b \in ViewInputs :
       /\ Validate(b)
       /\ mem = [i \in Ids |-> IF i = 1 THEN Dehydrate(b)
                               ELSE [group |-> "fruit", calories |-> 1, form |-> "typed"]]
       /\ queue = <<[cmd |-> "MULTI", id |-> 1, bag |-> Dehydrate(b)],
                    ListCmd(opts.cacheSize, 0, opts.dir, "prime")>>
  /\ hash = [i \in Ids |-> IF i = 1 THEN NoHash
                           ELSE [group |-> "fruit", calories |-> 1, form |-> "flat"]]
  /\ allIds = {2}
  /\ index = [g \in Groups |-> IF g = "fruit" THEN {2} ELSE {}]
  /\ zset = [i \in Ids |-> IF i = 1 THEN NoNum ELSE 1]
  /\ pc = [i \in Ids |-> IF i = 1 THEN "exec" ELSE "idle"]
  /\ op = [i \in Ids |-> IF i = 1 THEN "save" ELSE "none"]
  /\ trace = [i \in Ids |-> IF i = 1 THEN <<"save:before">> ELSE <<>>]
  /\ old = [i \in Ids |-> Undef]
  /\ cache = [primed |-> FALSE, items |-> <<>>]
  /\ repop = NoRepop
  /\ obs = NoObs
  /\ errs = 0
  /\ calls = 1
  /\ thrown = FALSE

SpecPrime == InitPrime /\ [][NextSaves]_vars

\* view.js:96, 139 a view constructed without filter and without cache,
\* sorted by calories
InitRace == Init /\ ~opts.cache /\ ~Filtered /\ opts.dirOpt = "DESC" /\ SortedByCalories /\ RoomyCache

\* saves and destroys of one id by two record objects, MaxWrites calls in
\* all: the record kept for the id, and another record object that is saved
NextRace ==
  \/ \E i \in Ids : \E b \in ViewInputs : calls < MaxWrites /\ Save(i, b)
  \/ \E i \in Ids : \E b \in UpdateInputs : calls < MaxWrites /\ SaveOther(i, b)
  \/ \E i \in Ids : calls < MaxWrites /\ Destroy(i)
  \/ \E h, g, x \in BOOLEAN : ReplyMulti(h, g, x)
  \/ \E e \in BOOLEAN : ReplyMultiOther(e)
  \/ \E e \in BOOLEAN : ReplyDel(e)
  \/ ReplySadd
  \/ ReplySrem
  \/ \E e \in BOOLEAN : ReplyZadd(e)
  \/ \E e \in BOOLEAN : ReplyZremDestroy(e)

SpecRace == InitRace /\ [][NextRace]_vars

TypeOK ==
  /\ opts \in ViewOptions
  /\ allIds \subseteq Ids
  /\ \A i \in Ids : pc[i] \in {"idle", "load", "exec", "react"}
  /\ errs \in 0..MaxErrors
  /\ Len(cache.items) <= opts.cacheSize + 1


\* ============================================================ properties
Has(t, e) == \E k \in 1..Len(t) : t[k] = e

Count(t, e) == Cardinality({k \in 1..Len(t) : t[k] = e})

\* the last call on record i was a save that reported success and whose
\* reactions have settled
SavedOk(i) == op[i] = "save" /\ pc[i] = "idle" /\ Has(trace[i], "cb:ok")

DestroyedOk(i) == op[i] = "destroy" /\ pc[i] = "idle" /\ Has(trace[i], "cb:ok")

\* collection.js:216-226 the set find(query) sorts: the index set of the one
\* queried value, the namespace set for an empty query
FindSet(query) == IF query = Undef THEN allIds ELSE index[query]

\* C1: after a save has reported success and the commands of its save:after
\* reaction are applied, the record's id is in the namespace set and in the
\* index set of its defined group value, so find({group: v}) reads a set
\* that holds it.
C1_IndexedAfterSave ==
  \A i \in Ids :
    (SavedOk(i) /\ mem[i].group # Undef) => (i \in allIds /\ i \in FindSet(mem[i].group))

C1_Witness ==
  \E i \in Ids : SavedOk(i) /\ mem[i].group = "fruit" /\ i \in index["fruit"] /\ i \in allIds

\* C2: when a saved record's group is changed from v1 to v2 and the record
\* is saved again successfully, the index set of v1 no longer holds the id
\* and the index set of v2 holds it.
C2_ReindexedAfterChange ==
  \A i \in Ids :
    (SavedOk(i) /\ ~Has(trace[i], "cb:err") /\ old[i] # Undef /\ mem[i].group # Undef
       /\ old[i] # mem[i].group)
    => (i \notin index[old[i]] /\ i \in index[mem[i].group])

\* C3: after destroy reports success neither the namespace set nor any index
\* set holds the record's id.
C3_NoIndexAfterDestroy ==
  \A i \in Ids :
    DestroyedOk(i) => (i \notin allIds /\ \A g \in Groups : i \notin index[g])


\* C6: the callback of save runs at most once, and a callback with the error
\* of the HMSET or HGETALL step is not followed by a callback with success.
C6_CallbackOnce ==
  \A i \in Ids :
    op[i] = "save" =>
      /\ Count(trace[i], "cb:ok") + Count(trace[i], "cb:err") + Count(trace[i], "cb:invalid") <= 1
      /\ ~(Has(trace[i], "cb:err") /\ Has(trace[i], "cb:ok"))

\* the properties fail the schema: the required calories is missing, or the
\* record is in the flat form a failed save left behind
Invalid(b) == b.calories = NoNum \/ b.form # "typed"

\* C7: a save of properties that fail validation runs the callback with the
\* validation errors and nothing else: no command is queued, save:before and
\* save:after are not emitted, and hashes, index sets, the view's ordered set
\* and its cache are unchanged.
C7_InvalidSaveIsInert ==
  [][\A i \in Ids : \A b \in Inputs \cup {mem[i]} :
       (Save(i, b) /\ Invalid(b)) =>
          /\ trace'[i] = <<"cb:invalid">>
          /\ UNCHANGED <<store, queue, cache, pc>>]_vars

C7_Witness ==
  \E i \in Ids : op[i] = "save" /\ trace[i] = <<"cb:invalid">> /\ hash[i] # NoHash
                 /\ i \in allIds /\ zset[i] # NoNum

\* a get has completed
GetDone == obs.call = "get" /\ obs.pc = "done"

\* C8: get(id) of an id that has no persisted hash calls back with
\* (null, null); it reports an error only when the store reported one.
C8_GetMissingIsNull ==
  (GetDone /\ hash[obs.id] = NoHash) =>
     IF obs.err THEN errs > 0
     ELSE Len(obs.res) = 1 /\ IsNull(obs.res[1])

C8_Witness ==
  GetDone /\ hash[obs.id] = NoHash /\ ~obs.err /\ IsNull(obs.res[1]) /\ op[obs.id] = "destroy"


\* a list of the whole view in its own direction has completed without error
ListDone == obs.call = "list" /\ obs.pc = "done" /\ ~obs.err

WholeListDone == ListDone /\ obs.limit = 10 /\ obs.skip = 0 /\ obs.dir = opts.dir

Listed == {obs.res[k].id : k \in {n \in 1..Len(obs.res) : ~IsNull(obs.res[n])}}

\* the view reacted to the last save of record i without error
Reacted(i) == SavedOk(i) /\ ~Has(trace[i], "view:error")

\* C4: after a record is saved and the view's reaction has settled without
\* error, the list of the view contains the record exactly when the record
\* passes the filter.
C4_ListedIffPasses ==
  (WholeListDone /\ repop.pc = "idle") =>
     \A i \in Ids : Reacted(i) => (i \in Listed <=> Passes(mem[i]))

\* the window the ordered set holds at [skip, skip + limit) in direction dir,
\* every element loaded from its hash
StoreWindow(limit, skip, dir) ==
  LET w == Slice(ZOrder(zset, dir), skip, limit)
  IN [k \in 1..Len(w) |-> load(w[k])]

\* the in-memory properties of every persisted record are the persisted ones
InSync == \A i \in Ids : hash[i] # NoHash => mem[i] = Hydrate(hash[i])

\* C5: in a cached view, after settled saves and destroys, a list in the
\* view's direction whose window lies within the cache returns the records
\* (ids, properties, order) of the same window of the ordered set.
C5_CacheMatchesStore ==
  (opts.cache /\ ListDone /\ obs.dir = opts.dir /\ obs.from = "cache"
     /\ obs.limit + obs.skip <= Len(cache.items) /\ InSync /\ repop.pc = "idle")
  => obs.res = StoreWindow(obs.limit, obs.skip, obs.dir)

\* C9: when a record that was in the filtered view is saved with properties
\* that fail the filter, model:removed is emitted exactly once and the list
\* of the view no longer contains the record.
C9_RemovedOnceAndUnlisted ==
  \A i \in Ids :
    (Reacted(i) /\ Has(trace[i], "was:member") /\ ~Passes(mem[i])) =>
       /\ Count(trace[i], "model:removed") = 1
       /\ WholeListDone => i \notin Listed

\* C10: when repopulate has reported success and no save or destroy ran
\* meanwhile, the ordered set holds exactly the existing records that pass
\* the filter, each with the score of its sort value.
C10_RepopulateRebuilds ==
  (repop.pc = "done" /\ repop.cbs = <<"ok">> /\ repop.quiet) =>
     \A i \in Ids : zset[i] = Ideal(i)

C10_Witness ==
  /\ repop.pc = "done" /\ repop.cbs = <<"ok">> /\ repop.quiet /\ repop.dirty
  /\ \E i \in Ids : zset[i] # NoNum
  /\ \E i \in Ids : hash[i] # NoHash /\ zset[i] = NoNum

\* a command of repopulate is in flight: the DEL of the view's key, the SORT
\* and the loads of find({}), or the reaction of a replayed record
RepopInFlight ==
  \E k \in 1..Len(queue) :
    \/ queue[k].cmd \in {"DELVIEW", "SORT"}
    \/ queue[k].cmd = "HGETALL" /\ queue[k].for = "repop"
    \/ queue[k].cmd \in {"ZADD", "ZREM"} /\ queue[k].src = "repop"

\* C11: repopulate calls its callback exactly once: never twice; without an
\* error only when no replayed reaction is left in flight; with an error only
\* when a step has failed; and once none of its commands is in flight any
\* more the callback has run.
C11_RepopulateCallsBackOnce ==
  /\ Len(repop.cbs) <= 1
  /\ (repop.pc = "done") = (Len(repop.cbs) = 1)
  /\ repop.cbs = <<"ok">> => ~RepopInFlight /\ repop.pending = 0
  /\ repop.cbs = <<"err">> => errs > 0
  /\ Running(repop) => RepopInFlight

Max(a, b) == IF a > b THEN a ELSE b

FindDone == obs.call = "find" /\ obs.pc = "done"

\* find({}, {sort: calories, limit: L > 0, skip: S}) has called back with a list
SortedFindDone ==
  FindDone /\ obs.query = "all" /\ obs.opt.sort /\ obs.opt.limit > 0 /\ ~obs.err

\* the size of the list, the records it holds and the one reply the store
\* can give to the same SORT while nothing is written
FindWindowOk ==
  /\ Len(obs.res) = Min(obs.opt.limit, Max(0, Cardinality(allIds) - obs.opt.skip))
  /\ \A k \in 1..Len(obs.res) : ~IsNull(obs.res[k]) /\ obs.res[k].id = obs.ids[k]
  /\ SortReply(FindCmd(obs.query, obs.opt)) = {obs.ids}

\* C12 (as amended): find({}, {sort: x, limit: L, skip: S}) with L > 0 over N
\* records returns exactly min(L, max(0, N - S)) records, ordered by x in the
\* requested direction (never a larger x before a smaller one when ascending,
\* never a smaller before a larger when desc is set), and the same id sequence
\* when repeated with no write in between.
C12_FindSortedWindow ==
  SortedFindDone =>
    /\ FindWindowOk
    /\ \A k, l \in 1..Len(obs.res) : k < l =>
         IF obs.opt.desc THEN obs.res[k].bag.calories >= obs.res[l].bag.calories
         ELSE obs.res[k].bag.calories <= obs.res[l].bag.calories

\* two records, the second of a descending sort is returned
C12_Witness ==
  /\ SortedFindDone /\ obs.opt.desc /\ obs.opt.limit = 1 /\ obs.opt.skip = 1
  /\ Cardinality(allIds) = 2 /\ Len(obs.res) = 1

\* C12 as stated: the records are strictly ordered by x
C12_FindStrictlyOrdered ==
  SortedFindDone =>
    /\ FindWindowOk
    /\ \A k, l \in 1..Len(obs.res) : k < l =>
         IF obs.opt.desc THEN obs.res[k].bag.calories > obs.res[l].bag.calories
         ELSE obs.res[k].bag.calories < obs.res[l].bag.calories

GetallCalled == obs.call = "getall"

\* what getall's callback got, apart from the list that may come with an error
GetallOk ==
  /\ obs.cbs <= 1
  /\ (obs.pc = "done") = (obs.cbs = 1)
  /\ queue = <<>> => obs.pc = "done"
  /\ obs.pc = "done" /\ ~obs.err =>
       /\ obs.list /\ obs.left = {} /\ Len(obs.res) = Len(obs.ids)
       /\ \A k \in 1..Len(obs.ids) : obs.res[k] = load(obs.ids[k])
  /\ obs.err => obs.pc = "done" /\ obs.errAt \in obs.left

\* C13 (as amended): getall(ids) returns its results in the order of the
\* input id list whatever order the fetches complete in, and when a fetch
\* reports a store error the callback is invoked exactly once, with that
\* error; a success is reported only when every fetch succeeded.
C13_GetallInInputOrder == GetallCalled => GetallOk

\* the second fetch completed before the first and the list is in input order
C13_Witness ==
  /\ GetallCalled /\ obs.pc = "done" /\ ~obs.err /\ obs.order = <<2, 1>>
  /\ obs.res[1] # obs.res[2] /\ ~IsNull(obs.res[1]) /\ ~IsNull(obs.res[2])

\* C13 as stated: with the error the callback gets no result list
C13_GetallErrorWithoutList == GetallCalled => GetallOk /\ (obs.err => ~obs.list)

\* C16: find called with a query of two or more fields raises at the call,
\* issues no store command and never calls back.
C16_MultiFieldFindRaises ==
  obs.call = "find" /\ obs.query = "multi" =>
    thrown /\ obs.pc = "raised" /\ queue = <<>> /\ obs.cbs = 0

\* the query was made over a collection that holds a record of each group
C16_Witness ==
  /\ obs.call = "find" /\ obs.query = "multi"
  /\ \A g \in Groups : index[g] # {}

\* the reply to update's load of record i arrives in this step, without an
\* error and with the persisted properties
LoadedForUpdate(i) ==
  /\ pc[i] = "load" /\ pc'[i] # "load" /\ errs' = errs
  /\ hash[i] # NoHash

\* the MULTI of update's save of record i succeeds in this step
UpdateSaved(i) ==
  /\ op[i] = "update" /\ pc[i] = "exec" /\ pc'[i] = "react" /\ errs' = errs

\* C14: update(id, partialAttrs) on an existing record assigns exactly the
\* named fields to the loaded properties and saves the result when it is
\* valid; when the save succeeds every named field has the given value in
\* the hash, every other field its persisted value, and the callback gets
\* the record of the same id with these properties.
C14_UpdateOverwritesNamed ==
  [][\A i \in Ids :
       /\ LoadedForUpdate(i) /\ Validate(Assign(Hydrate(hash[i]), queue[1].attrs)) =>
            /\ pc'[i] = "exec"
            /\ queue'[Len(queue')] = [cmd |-> "MULTI", id |-> i, attrs |-> queue[1].attrs,
                                      bag |-> Dehydrate(Assign(Hydrate(hash[i]), queue[1].attrs))]
       /\ UpdateSaved(i) =>
            /\ Hydrate(hash'[i]) = Assign(Hydrate(hash[i]), queue[1].attrs)
            /\ mem'[i] = Hydrate(hash'[i])
            /\ queue[1].id = i
            /\ Count(trace'[i], "cb:ok") = 1 /\ ~Has(trace'[i], "cb:err")]_vars

\* an update that named calories only has succeeded and the group is the one
\* that was persisted
C14_Witness ==
  \E i \in Ids :
    /\ op[i] = "update" /\ Has(trace[i], "cb:ok") /\ ~Has(trace[i], "cb:err")
    /\ old[i] \in Groups /\ hash[i].group = old[i] /\ mem[i] = Hydrate(hash[i])

\* every field the save wrote has the written value in h
Agrees(h, bag) ==
  /\ h.form # "none"
  /\ bag.group # Undef => h.group = bag.group
  /\ bag.calories # NoNum => h.calories = bag.calories

\* the reply to the MULTI at the head of the queue arrives in this step and
\* reports no error
MultiSucceeds ==
  /\ queue # <<>> /\ queue[1].cmd \in {"MULTI", "MULTI2"}
  /\ calls' = calls /\ errs' = errs /\ queue' # queue

\* C19: the hash write and the read-back of one save are one atomic unit:
\* with saves of the same id by several callers in flight, the hash as the
\* save's read-back finds it, and the properties the read-back leaves in
\* the saved record, hold the written value of every field the save wrote.
C19_ReadBackHoldsOwnWrite ==
  [][MultiSucceeds =>
       /\ Agrees(hash'[queue[1].id], queue[1].bag)
       /\ queue[1].cmd = "MULTI" => Agrees(mem'[queue[1].id], queue[1].bag)]_vars

\* a save has read back its own write while another caller's save of the
\* same id, with another value, is in flight
C19_Witness ==
  \E i \in Ids :
    /\ op[i] = "save" /\ pc[i] = "react" /\ Agrees(hash[i], mem[i])
    /\ \E k \in 1..Len(queue) :
         queue[k].cmd = "MULTI2" /\ queue[k].id = i /\ queue[k].bag.calories # mem[i].calories

\* the MULTI of a save of record i succeeds in this step
SaveSucceeds(i) ==
  /\ queue # <<>> /\ queue[1].cmd = "MULTI" /\ queue[1].id = i
  /\ op[i] = "save" /\ pc[i] = "exec" /\ pc'[i] = "react" /\ errs' = errs

\* C15: when a save succeeds, the properties a fresh record of the same id
\* loads (the hydrated hash) equal the properties the record was saved
\* with, each value of its kind, and so do the record's own properties.
C15_SaveLoadRoundTrip ==
  [][\A i \in Ids : SaveSucceeds(i) =>
       /\ Hydrate(hash'[i]) = Hydrate(queue[1].bag)
       /\ mem'[i] = Hydrate(queue[1].bag)]_vars

DestroyAllCalled == obs.call = "destroyAll"

\* the thing is one of the arguments or in an array that is one
Given(e) == \E k \in 1..Len(obs.args) : e \in Range(obs.args[k].things)

C18_CallbackAfterAllSettled ==
  DestroyAllCalled =>
    /\ Len(obs.cbs) <= 1
    /\ obs.inflight = {} => Len(obs.cbs) = 1
    /\ obs.cbs # <<>> => obs.inflight = {}
    /\ obs.cbs = <<"ok">> => obs.failed = <<>>
    /\ obs.cbs # <<>> /\ obs.cbs # <<"ok">> => obs.failed # <<>> /\ obs.cbs[1] = obs.failed[1]

\* C20: a view constructed without dir lists from the highest score to the
\* lowest when list() is called without a direction.
C20_DefaultListsHighestFirst ==
  ListDone /\ opts.dirOpt = Undef /\ obs.dir = opts.dir =>
    \A k, l \in 1..Len(obs.res) :
      k < l /\ ~IsNull(obs.res[k]) /\ ~IsNull(obs.res[l]) =>
        obs.res[k].bag.calories >= obs.res[l].bag.calories

\* the last save of record i succeeded, the view's reaction has settled and
\* the store reported no error of its own
SettledSave(i) == SavedOk(i) /\ pc[i] = "idle" /\ errs = 0

\* C21: in a view whose sort property the record has no value for, and in
\* a view without a sort property, a saved record that passes the filter is
\* in the ordered set with score 0.
C21_ScoreZeroWithoutSortValue ==
  \A i \in Ids :
    SettledSave(i) /\ Passes(mem[i]) /\ (~opts.sort \/ SortValue(mem[i]) = NoNum) =>
      zset[i] = 0

\* the ids of every record in the order of a sorted find({}) without window
FullOrder(o) ==
  CHOOSE q \in SortReply(FindCmd("all", [o EXCEPT !.limit = 0, !.skip = 0])) : TRUE

\* the ids that are left of an ordering when the first skip are omitted and
\* at most limit (all when there is no limit) are taken
Skipped(full, o) ==
  SubSeq(full, o.skip + 1, IF o.limit = 0 THEN Len(full) ELSE Min(o.skip + o.limit, Len(full)))

\* C22: a sorted find({}) with a skip option returns the ordering without
\* its first skip records, with a limit option and without one.
C22_SkipOmitsFirstRecords ==
  FindDone /\ obs.query = "all" /\ obs.opt.sort /\ ~obs.err =>
    obs.ids = Skipped(FullOrder(obs.opt), obs.opt)

\* the events of save itself in a record's trace, without the view's
SaveEvents(t) ==
  SelectSeq(t, LAMBDA e : e \in {"save:before", "save:after", "cb:ok", "cb:err", "cb:invalid"})

\* an index-set or view command of a save of record i is in the pipeline
MaintenancePending(i) ==
  \E k \in 1..Len(queue) :
    \/ queue[k].cmd = "SADD" /\ queue[k].id = i
    \/ queue[k].cmd \in {"ZADD", "ZREM"} /\ queue[k].src = "save" /\ queue[k].item.id = i

\* C23: a save emits save:before, writes and reads back the hash, emits
\* save:after and then calls back with success, in this order; an index-set
\* or view command of the save is only issued after save:after, and neither
\* save:after nor such a command follows a failed step of the write unit.
C23_MaintenanceAfterPersistence ==
  \A i \in Ids :
    op[i] = "save" =>
      /\ MaintenancePending(i) => Has(trace[i], "save:after")
      /\ Has(trace[i], "save:after") =>
           /\ SaveEvents(trace[i]) = <<"save:before", "save:after", "cb:ok">>
           /\ hash[i] # NoHash

\* a retraction of record i from the index sets or the view is in the pipeline
RetractionPending(i) ==
  \E k \in 1..Len(queue) :
    \/ queue[k].cmd = "SREM" /\ queue[k].id = i
    \/ queue[k].cmd = "ZREMD" /\ queue[k].item.id = i

\* the step in which the DEL of a destroy is answered
DelAnswered ==
  /\ queue # <<>> /\ queue[1].cmd = "DEL"
  /\ trace'[queue[1].id] # trace[queue[1].id]

\* C24: when the DEL of a destroy is answered, destroy:before was emitted
\* and nothing else; on success the key is gone, destroy:after is emitted
\* and the callback runs once without error; on failure the callback runs
\* once with the error, destroy:after is not emitted, the key, the index sets
\* and the view's ordered set are as before and no retraction is issued.
C24_DestroyAfterDeletion ==
  [][DelAnswered =>
       \A i \in {queue[1].id} :
          /\ trace[i] = <<"destroy:before">>
          /\ \/ /\ trace'[i] = <<"destroy:before", "destroy:after", "cb:ok">>
                /\ hash'[i] = NoHash
             \/ /\ trace'[i] = <<"destroy:before", "cb:err">>
                /\ hash' = hash /\ allIds' = allIds /\ index' = index /\ zset' = zset
                /\ ~RetractionPending(i)'
                /\ pc'[i] = "idle"]_vars

\* the destroy of a record that is in the id set and in the view has failed
C24_Witness ==
  \E i \in Ids :
    /\ op[i] = "destroy" /\ pc[i] = "idle" /\ trace[i] = <<"destroy:before", "cb:err">>
    /\ i \in allIds /\ zset[i] # NoNum /\ hash[i] # NoHash

\* C25: the property a save:before listener set is in the hash the save
\* wrote, and the record a later get returns has it with the value and the
\* kind the listener set.
C25_HookPropertyRoundTrip ==
  (obs.call = "hook" /\ obs.pc = "done") =>
     /\ obs.hash.vals["job"] # Absent
     /\ obs.got.vals["job"] = obs.set

\* C26: when every save and destroy so far succeeded, each element of the
\* result of find({group: v}) is a record that exists (not null) and whose
\* persisted group is v.
C26_FindByIndexIsCurrent ==
  (FindDone /\ obs.query \in Groups /\ ~obs.err /\ errs = 0) =>
     \A k \in 1..Len(obs.res) :
       /\ ~IsNull(obs.res[k])
       /\ hash[obs.ids[k]] # NoHash
       /\ hash[obs.ids[k]].group = obs.query

\* the number of times the callback of the record's operation ran
Callbacks(t) == Count(t, "cb:ok") + Count(t, "cb:err") + Count(t, "cb:invalid")

\* the step in which the read of an update is answered
LoadAnswered ==
  /\ queue # <<>> /\ queue[1].cmd = "LOAD"
  /\ queue' = <<>> \/ queue'[1] # queue[1]

\* C27: when the read of update(id, attrs, cb) is answered for an id without
\* a hash, the callback runs exactly once, no exception escapes, nothing is
\* written and no write is issued.
C27_UpdateOfMissingReports ==
  [][LoadAnswered =>
       \A i \in {queue[1].id} :
         hash[i] = NoHash =>
           /\ Callbacks(trace'[i]) = 1
           /\ ~thrown'
           /\ store' = store
           /\ queue' = Tail(queue)]_vars

\* the properties a bag or a hash has
FieldsOf(b) ==
  IF b = NoHash THEN {}
  ELSE {f \in {"group"} : b.group # Undef} \cup {f \in {"calories"} : b.calories # NoNum}

\* C28: when a save succeeds, the hash and the record's in-memory properties
\* hold exactly the properties the record was saved with: a property removed
\* before the save is in neither.
C28_HashHoldsLastSaveOnly ==
  [][\A i \in Ids : SaveSucceeds(i) =>
       /\ FieldsOf(hash'[i]) = FieldsOf(queue[1].bag)
       /\ FieldsOf(mem'[i]) = FieldsOf(queue[1].bag)]_vars

\* the positions of record i in the result of the list
PositionsOf(i) == {k \in 1..Len(obs.res) : ~IsNull(obs.res[k]) /\ obs.res[k].id = i}

\* in the result of the list record i stands, by the calories it was saved
\* with, where the direction of the list puts it among the other records
OrderedByNewValue(i) ==
  \A k \in PositionsOf(i) : \A m \in 1..Len(obs.res) :
    (~IsNull(obs.res[m]) /\ obs.res[m].id # i) =>
       LET mine == mem[i].calories
           other == obs.res[m].bag.calories
       IN IF (obs.dir = "ASC") = (m < k) THEN other <= mine ELSE other >= mine

\* C29: when a view that has only seen successful saves has reacted to a
\* save of a record that passes the filter, it has emitted model:added once and no model:updated if the record
\* was not in the view, model:updated once and no model:added if it was, and
\* a list of the view, made while no record has unsaved changes, then holds
\* the record once, placed by its new calories.
C29_AddedThenUpdated ==
  \A i \in Ids :
    (Reacted(i) /\ Passes(mem[i])) =>
       /\ Count(trace[i], "model:added") = (IF Has(trace[i], "was:member") THEN 0 ELSE 1)
       /\ Count(trace[i], "model:updated") = (IF Has(trace[i], "was:member") THEN 1 ELSE 0)
       /\ (WholeListDone /\ InSync) => Cardinality(PositionsOf(i)) = 1 /\ OrderedByNewValue(i)

\* a record of a cached view was saved again with other calories, the view
\* updated it, and the list served from the cache holds both records
C29_Witness ==
  \E i \in Ids :
    /\ Reacted(i) /\ Passes(mem[i]) /\ Has(trace[i], "model:updated")
    /\ WholeListDone /\ InSync /\ obs.from = "cache" /\ Len(obs.res) = 2
    /\ \E m \in 1..2 : obs.res[m].id # i /\ obs.res[m].bag.calories # mem[i].calories

\* C30: when a record was destroyed and the view's reaction has settled
\* without error, the view has emitted model:removed for it once and a list
\* of the view, cached or not, does not return the record.
C30_DestroyedLeavesView ==
  \A i \in Ids :
    (DestroyedOk(i) /\ ~Has(trace[i], "view:error")) =>
       /\ Count(trace[i], "model:removed") = 1
       /\ (ListDone /\ repop.pc = "idle") => i \notin Listed

\* C31: list answers from the cache exactly when the view is cached, the
\* requested direction is the view's and skip + limit is at most the number
\* of cached elements; otherwise it reads the ordered set.
C31_CacheOnlyWithinPrefix ==
  obs.call = "list" =>
    (obs.from = "cache" <=>
       (opts.cache /\ obs.dir = opts.dir /\ obs.skip + obs.limit <= Len(cache.items)))

\* C32: a list read from the ordered set of a view with M members returns
\* min(limit, max(0, M - skip)) records: the members at the positions skip to
\* skip + limit - 1 of the ordering in the requested direction, in that order.
C32_ListWindow ==
  (ListDone /\ obs.from = "store") =>
     LET w == Slice(ZOrder(zset, obs.dir), obs.skip, obs.limit)
     IN /\ Len(obs.res) = Min(obs.limit, Max(0, Cardinality(Members) - obs.skip))
        /\ Len(obs.res) = Len(w)
        /\ \A k \in 1..Len(w) : ~IsNull(obs.res[k]) => obs.res[k].id = w[k]

\* the view reports an error of its reaction to the save of record i in this step
ReactionFails(i) ==
  op[i] = "save" /\ Count(trace'[i], "view:error") > Count(trace[i], "view:error")

\* C33: when the ZADD or ZREM of the view's reaction to a save fails, the view
\* emits one error and none of model:added, model:updated and model:removed,
\* its cache and ordered set are unchanged, no exception escapes, and the
\* save has called back once, with success.
C33_ReactionErrorIsContained ==
  [][\A i \in Ids : ReactionFails(i) =>
       /\ trace'[i] = trace[i] \o <<"view:error">>
       /\ Count(trace'[i], "view:error") = 1
       /\ ~Has(trace'[i], "model:added") /\ ~Has(trace'[i], "model:updated")
       /\ ~Has(trace'[i], "model:removed")
       /\ cache' = cache /\ zset' = zset /\ ~thrown'
       /\ Callbacks(trace'[i]) = 1 /\ Has(trace'[i], "cb:ok")]_vars

\* the removal of a cached member that no longer passes the filter has failed
C33_Witness ==
  \E i \in Ids :
    /\ op[i] = "save" /\ pc[i] = "idle" /\ Has(trace[i], "view:error")
    /\ Has(trace[i], "was:member") /\ ~Passes(mem[i])
    /\ opts.cache /\ \E k \in 1..Len(cache.items) : cache.items[k].id = i

\* the records the view holds when it agrees with the persisted hashes
IdealMembers == {i \in Ids : Ideal(i) # NoNum}

\* C34: when the view agreed with the records at the time repopulate was
\* called and no record was saved or destroyed since, a list of the whole
\* view, made while the repopulate runs or after it, returns exactly the
\* members, never a part of them.
C34_RepopulateIsAtomic ==
  (WholeListDone /\ repop.quiet /\ ~repop.dirty) => Listed = IdealMembers

\* the ids of the cached elements, in the order of the cache
CacheIds == [k \in 1..Len(cache.items) |-> cache.items[k].id]

\* the scores of a sequence of ids in the ordered set
ScoresOf(ids) == [k \in 1..Len(ids) |-> zset[ids[k]]]

\* C35: once the cache of a cached view is primed, and while no exception
\* has escaped, it holds at most cacheSize elements, each a different member
\* of the ordered set, and they are the first min(cacheSize, M) elements of
\* the ordered set in the view's direction (elements of equal score in
\* either order).
C35_CacheIsStorePrefix ==
  (opts.cache /\ cache.primed /\ ~thrown) =>
     /\ Len(cache.items) <= opts.cacheSize
     /\ \A k \in 1..Len(CacheIds) : CacheIds[k] \in Members
     /\ \A k, m \in 1..Len(CacheIds) : CacheIds[k] = CacheIds[m] => k = m
     /\ ScoresOf(CacheIds) = ScoresOf(Slice(ZOrder(zset, opts.dir), 0, opts.cacheSize))

\* C36: when the repopulate of a cached view has called back with success,
\* the cache holds no record twice and no record that is not in the ordered
\* set.
C36_CacheAgreesAfterRepopulate ==
  (opts.cache /\ cache.primed /\ ~thrown /\ repop.pc = "done" /\ repop.cbs = <<"ok">>) =>
     /\ \A k, m \in 1..Len(CacheIds) : CacheIds[k] = CacheIds[m] => k = m
     /\ \A k \in 1..Len(CacheIds) : CacheIds[k] \in Members

\* C37: in a cached view a save whose reaction is answered before the cache
\* is primed raises no exception, and once everything has settled a record
\* that is in the ordered set is in the cache exactly once.
C37_SaveBeforePrimedIsKept ==
  /\ ~thrown
  /\ (Quiescent /\ cache.primed) =>
       \A i \in Members : Cardinality({k \in 1..Len(CacheIds) : CacheIds[k] = i}) = 1

\* the MULTI of a save of record i is answered with an error in this step
SaveFails(i) ==
  /\ queue # <<>> /\ queue[1].cmd = "MULTI" /\ queue[1].id = i
  /\ op[i] = "save" /\ pc[i] = "exec" /\ pc'[i] # "exec" /\ errs' > errs

\* C38: when a save fails with a store error, the record's in-memory
\* properties are typed values afterwards, not the string form with the
\* embedded type map.
C38_FailedSaveKeepsTypedProperties ==
  [][\A i \in Ids : SaveFails(i) => mem'[i].form = "typed"]_vars

\* C39: when saves of one record id by several record objects, with
\* different values, were in flight together and they and the view's
\* reactions have settled without a store error, the record is a member of
\* the ordered set iff the stored hash passes the filter, and its score is
\* the sort value of the stored hash.
C39_ViewAgreesWithHash ==
  (Quiescent /\ errs = 0 /\ ~thrown) =>
     \A i \in Ids : hash[i] # NoHash => zset[i] = Ideal(i)

\* the position of the first event e in t, Len(t) + 1 when there is none
First(t, e) ==
  IF Has(t, e) THEN CHOOSE k \in 1..Len(t) : t[k] = e /\ \A j \in 1..(k - 1) : t[j] # e
  ELSE Len(t) + 1

\* two record objects of one id were saved with different sort values, each
\* save started before the other was answered, and both and the view's
\* reactions have settled with the view holding the stored sort value
C39_Witness ==
  /\ Quiescent /\ errs = 0 /\ ~thrown
  /\ \E i \in Ids :
       /\ Has(trace[i], "save:after") /\ Has(trace[i], "other:after")
       /\ First(trace[i], "save:before") < First(trace[i], "other:after")
       /\ First(trace[i], "other:before") < First(trace[i], "save:after")
       /\ mem[i].calories # hash[i].calories
       /\ zset[i] = Ideal(i) /\ zset[i] # NoNum

\* C40: when a save and a destroy of one record id were in flight together
\* and they and their reactions have settled without a store error, the id
\* is in the namespace set iff the record's hash exists, and the record is
\* an element of the unfiltered view iff the hash exists.
C40_SetsAgreeWithHash ==
  (Quiescent /\ errs = 0 /\ ~thrown /\ ~Filtered) =>
     \A i \in Ids :
       /\ i \in allIds <=> hash[i] # NoHash
       /\ zset[i] # NoNum <=> hash[i] # NoHash

\* a record object of an id was saved while the destroy of another record
\* object of that id was waiting for its answer; all has settled and the
\* hash, the id in the namespace set and the element of the view are there
C40_Witness ==
  /\ Quiescent /\ errs = 0 /\ ~thrown /\ ~Filtered
  /\ \E i \in Ids :
       /\ Has(trace[i], "destroy:after") /\ Has(trace[i], "other:after")
       /\ First(trace[i], "other:before") < First(trace[i], "destroy:after")
       /\ hash[i] # NoHash /\ i \in allIds /\ zset[i] # NoNum

====
